---- MODULE Spec2Model ----
(***************************************************************************)
(* A model of the rating engine of allofmath: the Elo rating math, the    *)
(* pairwise-vote batch processor (recompute-ratings), the corpus sync     *)
(* (sync-problem-ratings), the vote route, the attempt route with its     *)
(* inline user-rating update, claimSession, and the Learn page with its   *)
(* scheduler (selectNextProblem), difficulty ratchet and game states.      *)
(*                                                                         *)
(* Tables are functions whose domain is the set of stored keys; a         *)
(* timestamp column that is only ever tested for NULL (processed_at) is a *)
(* boolean, and updated_at, which nothing reads, is left out.             *)
(***************************************************************************)
EXTENDS Integers, Sequences, FiniteSets, TLC

(***************************************************************************)
(* Bounds of the model.                                                    *)
(***************************************************************************)
\* rows the pairwise_votes table may hold
MaxVotes == 2
\* the batch size of one recompute-ratings run (1000 in the source, scaled)
BatchLimit == 1
\* the batch size in the specification of the runs that fold several votes
PairLimit == 2
\* rows of pairwise_votes in the specifications that vary something else
\* (the initial table, storage failures, a second run)
FewVotes == 1
\* rows the attempts table may hold
MaxAttempts == 2
\* storage failures injected into the runs of one behaviour
MaxFailures == 1
\* problems a learner completes before starting over
MaxCompleted == 3
\* problems a learner completes in the specification of the long streaks
MaxStreak == 20

(***************************************************************************)
(* The corpus (data/problems/*.json as loaded by loadProblemsList): ids   *)
(* and seed difficulties, which ProblemSchema keeps in 1..20.              *)
(***************************************************************************)
Problems == {"p1", "p2", "p3"}

\* the problems that the votes and attempts of the server-side
\* specifications name
Compared == {"p1", "p2"}

SeedOf(p) == IF p = "p1" THEN 1 ELSE 20

Sessions == {"s1", "s2"}

Runners == {"r1", "r2"}

VoteValues == {"easier", "same", "harder"}

Users == {"u1"}

Handlers == {"h1", "h2"}

NoUser == "anon"

(***************************************************************************)
(* Rating math (lib/elo).                                                  *)
(***************************************************************************)
DefaultRating == 1000
MinProblemRating == 400
MinUserRating == 100
MaxRating == 4000

Max(a, b) == IF a >= b THEN a ELSE b
Min(a, b) == IF a <= b THEN a ELSE b

kFactorInclusive(n) ==
    IF n <= 10 THEN 64 ELSE IF n <= 50 THEN 32 ELSE IF n <= 200 THEN 16 ELSE 8

\* kFactor(nVotes)
kFactor(n) == IF n < 10 THEN 64 ELSE IF n < 50 THEN 32 ELSE IF n < 200 THEN 16 ELSE 8

\* expectedScore(rA, rB) = 1 / (1 + 10^((rB - rA) / 400)) is a function of
\* d = rB - rA alone, and Math.round(k * (1 - expectedScore)) is a step
\* function of d that climbs from 0 to k.  EloSteps(k) holds, for every m
\* of 1..k, the least d at which it reaches m, tabulated from the source's
\* formula in IEEE doubles for every k the callers can pass (64, 32, 16, 8
\* and their halves); no d puts k * (s - e) within 0.0001 of a rounding
\* tie.
EloSteps(k) ==
    CASE k = 64 ->
           { -841, -647, -556, -495, -448, -410, -378, -350, -325, -303,
              -282, -263, -245, -229, -213, -198, -183, -169, -156, -143,
              -130, -118, -106, -94, -82, -71, -60, -49, -38, -27, -16, -5,
              6, 17, 28, 39, 50, 61, 72, 83, 95, 107, 119, 131, 144, 157,
              170, 184, 199, 214, 230, 246, 264, 283, 304, 326, 351, 379,
              411, 449, 496, 557, 648, 842 }
      [] k = 32 ->
           { -719, -523, -428, -364, -314, -273, -237, -205, -176, -149,
              -124, -100, -77, -54, -32, -10, 11, 33, 55, 78, 101, 125, 150,
              177, 206, 238, 274, 315, 365, 429, 524, 720 }
      [] k = 16 ->
           { -596, -394, -292, -221, -162, -112, -65, -21, 22, 66, 113,
              163, 222, 293, 395, 597 }
      [] k = 8 -> { -470, -254, -136, -43, 44, 137, 255, 471 }
      [] k = 4 -> { -338, -88, 89, 339 }

\* Math.round(k * (1 - expectedScore(rA, rB)))
RoundedWin(rA, rB, k) ==
    Cardinality({d \in EloSteps(k) : d <= rB - rA})

\* delta = Math.round(k * (sA - expectedScore(rA, rB))), the score sA given
\* doubled (s2 = 2 * sA in {0, 1, 2}) to stay in the integers: k * sA is an
\* integer for every k and sA the callers pass, and rounding commutes with
\* adding an integer.
EloDelta(rA, rB, s2, k) == RoundedWin(rA, rB, k) - (k * (2 - s2)) \div 2

ClampProblem(r) == Max(MinProblemRating, Min(MaxRating, r))

updateEloNoClamp(rA, rB, s2, k) ==
    LET delta == EloDelta(rA, rB, s2, k)
    IN  [rA |-> rA + delta, rB |-> rB - delta]

updateEloWinnerOnly(rA, rB, s2, k) ==
    LET delta == EloDelta(rA, rB, s2, k)
    IN  [rA |-> ClampProblem(rA + delta), rB |-> ClampProblem(rB)]

\* updateElo(rA, rB, sA, k)
updateElo(rA, rB, s2, k) ==
    LET delta == EloDelta(rA, rB, s2, k)
    IN  [rA |-> ClampProblem(rA + delta), rB |-> ClampProblem(rB - delta)]

voteToScoreOfCurrent(vote) ==
    CASE vote = "easier" -> 0 [] vote = "harder" -> 2 [] vote = "same" -> 1

\* voteToScore(vote), doubled
voteToScore(vote) ==
    CASE vote = "easier" -> 2 [] vote = "harder" -> 0 [] vote = "same" -> 1

\* seedToRating(seed)
seedToRating(seed) == DefaultRating + (seed - 1) * 60

\* ratingToLevel(rating): Math.max(1, 1 + Math.floor((rating - 1000) / 100))
ratingToLevel(rating) == Max(1, 1 + (rating - 1000) \div 100)

(***************************************************************************)
(* State.                                                                  *)
(***************************************************************************)
VARIABLES
    votes,        \* pairwise_votes: row id -> row, ids 1..Len (bigserial)
    ratings,      \* problem_ratings: problem id -> row, for the stored ids
    userRatings,  \* user_ratings: user id -> row, for the stored ids
    history,      \* user_rating_history, in insertion order
    attempts,     \* attempts, in insertion order
    run,          \* each recompute-ratings invocation: its position and locals
    result,       \* the last response of each recompute-ratings invocation
    voteReply,    \* the last response of POST /api/vote
    att,          \* each attempt request: its position and locals
    folded,       \* history: how often each vote was folded into stored ratings
    lost,         \* history: some write rested on a row read before another write
    retry,        \* history: the failed run a following run retries
    failures,     \* history: the storage failures injected so far
    baseVotes,    \* history: n_votes of each problem in the initial state
    baseAttempts, \* history: n_attempts of each user in the initial state
    learn,        \* the state of the Learn page of one browser
    trail         \* history: what the Learn page did last

vars == <<votes, ratings, userRatings, history, attempts, run, result, voteReply,
          att, folded, lost, retry, failures, baseVotes, baseAttempts, learn, trail>>

problemSide ==
    <<votes, ratings, run, result, voteReply, folded, lost, retry, failures, baseVotes>>

userSide == <<userRatings, history, attempts, att, baseAttempts>>

sessionSide == <<learn, trail>>

IdleRun == [pc |-> "idle", sel |-> <<>>, map |-> <<>>, before |-> <<>>]

NoResult == [ok |-> TRUE, processed |-> -1]

ErrorResult == [ok |-> FALSE, processed |-> -1]

NoRetry == [sel |-> <<>>, before |-> <<>>]

NoReply == [status |-> 0, error |-> "none"]

\* {success: true}
Accepted == [status |-> 200, error |-> "none"]

IdleAttempt == [pc |-> "idle", resp |-> "none"]

NoProblem == "none"

NoOutcome == "none"

\* useState of LearnPage before the init effect has run
LoadingPage ==
    [gameState |-> "loading", problems |-> <<>>, currentProblem |-> NoProblem,
     previousProblem |-> NoProblem, difficulty |-> 1, completedCount |-> 0,
     seenIds |-> {}, lastOutcome |-> NoOutcome, isResolved |-> FALSE,
     error |-> FALSE]

NoCall == [target |-> 0, seen |-> {}, chosen |-> NoProblem, tick |-> FALSE]

NoTrail ==
    [call |-> NoCall, streak |-> "none", run |-> 0, from |-> 1,
     retried |-> FALSE, watched |-> FALSE, vote |-> "none"]

ProblemRow(r, nv) == [rating |-> r, n_votes |-> nv, n_attempts |-> 0]

UserRow(r, na) == [rating |-> r, n_attempts |-> na]

\* The empty problem_ratings table of a fresh deployment.
FreshRatings == <<>>

\* Tables a long vote history leaves behind: a rating at a clamp bound with
\* an opponent near enough to move it, vote counts next to a kFactor step.
AgedRatings ==
    { [p \in Problems |-> IF p = "p1" THEN ProblemRow(400, 60) ELSE ProblemRow(1000, 9)],
      [p \in Problems |-> IF p = "p1" THEN ProblemRow(4000, 250) ELSE ProblemRow(3800, 250)] }

Start(tables, userTables) ==
    /\ votes = <<>>
    /\ ratings \in tables
    /\ userRatings \in userTables
    /\ history = <<>>
    /\ attempts = <<>>
    /\ run = [r \in Runners |-> IdleRun]
    /\ result = [r \in Runners |-> NoResult]
    /\ voteReply = NoReply
    /\ att = [h \in Handlers |-> IdleAttempt]
    /\ folded = <<>>
    /\ lost = FALSE
    /\ retry = NoRetry
    /\ failures = 0
    /\ baseVotes = [p \in Problems |->
                      IF p \in DOMAIN ratings THEN ratings[p].n_votes ELSE 0]
    /\ baseAttempts = [u \in Users |->
                         IF u \in DOMAIN userRatings THEN userRatings[u].n_attempts ELSE 0]
    /\ learn = LoadingPage
    /\ trail = NoTrail

Init == Start({FreshRatings}, {<<>>})

(***************************************************************************)
(* POST /api/vote                                                          *)
(***************************************************************************)
VoteKeyRows(s, prev, curr) ==
    {i \in DOMAIN votes :
        votes[i].session = s /\ votes[i].prev = prev /\ votes[i].curr = curr}

StoreVoteAlwaysInserts(s, prev, curr, v) ==
    /\ Len(votes) < MaxVotes
    /\ votes' = Append(votes,
          [session |-> s, user |-> NoUser, prev |-> prev, curr |-> curr,
           vote |-> v, processed |-> FALSE])
    /\ folded' = Append(folded, 0)
    /\ retry' = NoRetry
    /\ voteReply' = Accepted
    /\ UNCHANGED <<ratings, run, result, lost, failures, baseVotes>>
    /\ UNCHANGED userSide

StoreVoteReopens(s, prev, curr, v) ==
    /\ IF VoteKeyRows(s, prev, curr) # {}
         THEN /\ votes' = [i \in DOMAIN votes |->
                             IF i \in VoteKeyRows(s, prev, curr)
                               THEN [votes[i] EXCEPT !.vote = v, !.processed = FALSE]
                               ELSE votes[i]]
              /\ UNCHANGED folded
         ELSE /\ Len(votes) < MaxVotes
              /\ votes' = Append(votes,
                    [session |-> s, user |-> NoUser, prev |-> prev, curr |-> curr,
                     vote |-> v, processed |-> FALSE])
              /\ folded' = Append(folded, 0)
    /\ retry' = NoRetry
    /\ voteReply' = Accepted
    /\ UNCHANGED <<ratings, run, result, lost, failures, baseVotes>>
    /\ UNCHANGED userSide

\* the upsert on (session_hash, prev_problem_id, curr_problem_id): it
\* overwrites the vote column of the stored row, or inserts a new
\* unprocessed row; the route answers {success: true}
StoreVote(s, prev, curr, v) ==
    /\ IF VoteKeyRows(s, prev, curr) # {}
         THEN /\ votes' = [i \in DOMAIN votes |->
                             IF i \in VoteKeyRows(s, prev, curr)
                               THEN [votes[i] EXCEPT !.vote = v]
                               ELSE votes[i]]
              /\ UNCHANGED folded
         ELSE /\ Len(votes) < MaxVotes
              /\ votes' = Append(votes,
                    [session |-> s, user |-> NoUser, prev |-> prev, curr |-> curr,
                     vote |-> v, processed |-> FALSE])
              /\ folded' = Append(folded, 0)
    /\ retry' = NoRetry
    /\ voteReply' = Accepted
    /\ UNCHANGED <<ratings, run, result, lost, failures, baseVotes>>
    /\ UNCHANGED userSide

\* A valid request: two different problems of the corpus and a vote value.
SubmitVote(s, prev, curr, v) ==
    /\ prev # curr
    /\ prev \in Problems /\ curr \in Problems
    /\ StoreVote(s, prev, curr, v)

\* Request bodies as any client may send them: no JSON at all, or an object
\* whose ids may be empty or unknown to the corpus, whose vote may be none
\* of the three values, and which may carry a key the schema does not have.
EmptyId == ""

UnknownId == "px"

NoJson == [json |-> FALSE, prev |-> EmptyId, curr |-> EmptyId, vote |-> "maybe",
           extra |-> FALSE]

\* the bodies the Learn page can send: two problems and a vote value
PageBodies ==
    [json : {TRUE}, prev : Compared, curr : Compared, vote : VoteValues, extra : {FALSE}]

\* a body of the page with one thing wrong
Defects(b) ==
    { [b EXCEPT !.prev = EmptyId], [b EXCEPT !.curr = EmptyId],
      [b EXCEPT !.prev = UnknownId], [b EXCEPT !.curr = UnknownId],
      [b EXCEPT !.prev = UnknownId, !.curr = UnknownId],
      [b EXCEPT !.vote = "maybe"], [b EXCEPT !.extra = TRUE] }

Bodies ==
    {NoJson} \cup PageBodies
             \cup Defects([json |-> TRUE, prev |-> "p1", curr |-> "p2",
                           vote |-> "easier", extra |-> FALSE])

\* VoteSchema.safeParse(body).success
WellFormed(b) ==
    /\ b.prev # EmptyId /\ b.curr # EmptyId
    /\ b.vote \in VoteValues
    /\ ~b.extra

VoteVerdictSkipsPairTest(b) ==
    IF ~b.json THEN [status |-> 400, error |-> "Invalid JSON body"]
    ELSE IF ~WellFormed(b) THEN [status |-> 400, error |-> "Invalid request"]
    ELSE IF b.prev \notin Problems \/ b.curr \notin Problems
      THEN [status |-> 404, error |-> "Problem not found"]
    ELSE Accepted

\* the checks of the route on the body, in their order, and its answer
VoteVerdict(b) ==
    IF ~b.json THEN [status |-> 400, error |-> "Invalid JSON body"]
    ELSE IF ~WellFormed(b) THEN [status |-> 400, error |-> "Invalid request"]
    ELSE IF b.prev = b.curr THEN [status |-> 400, error |-> "Invalid pair"]
    ELSE IF b.prev \notin Problems \/ b.curr \notin Problems
      THEN [status |-> 404, error |-> "Problem not found"]
    ELSE Accepted

\* POST /api/vote of a session with the body b
VotePost(s, b) ==
    IF VoteVerdict(b) # Accepted
      THEN /\ voteReply' = VoteVerdict(b)
           /\ UNCHANGED <<votes, ratings, run, result, folded, lost, retry, failures,
                          baseVotes>>
           /\ UNCHANGED userSide
      ELSE StoreVote(s, b.prev, b.curr, b.vote)

(***************************************************************************)
(* POST /api/admin/recompute-ratings                                       *)
(***************************************************************************)
RECURSIVE TakeIds(_, _, _)
\* the ids of the first n rows, from id i on, that are in keep
TakeIds(keep, i, n) ==
    IF n = 0 \/ i > Len(votes) THEN <<>>
    ELSE IF i \in keep THEN <<i>> \o TakeIds(keep, i + 1, n - 1)
    ELSE TakeIds(keep, i + 1, n)

SelectAnyVotes == TakeIds(DOMAIN votes, 1, BatchLimit)

\* .is("processed_at", null).order("id", {ascending: true}).limit(limit)
SelectPending(limit) ==
    TakeIds({i \in DOMAIN votes : ~votes[i].processed}, 1, limit)

\* the select of a run
SelectPendingVotes == SelectPending(BatchLimit)

VoteSnapshot(i) ==
    [id |-> i, prev |-> votes[i].prev, curr |-> votes[i].curr, vote |-> votes[i].vote]

SelIds(r) == {run[r].sel[j].id : j \in DOMAIN run[r].sel}

\* ids: the distinct problem ids of the selected votes
ProblemsOf(sel) ==
    {sel[j].prev : j \in DOMAIN sel} \cup {sel[j].curr : j \in DOMAIN sel}

SelProblems(r) == ProblemsOf(run[r].sel)

\* what the working set keeps of a stored row
Entry(row) == [rating |-> row.rating, n_votes |-> row.n_votes]

FoldOneNoCount(m, v) ==
    LET A == m[v.prev]
        B == m[v.curr]
        kMax == Max(kFactor(A.n_votes), kFactor(B.n_votes))
        k == IF v.vote = "same" THEN kMax \div 2 ELSE kMax
        next == updateElo(A.rating, B.rating, voteToScore(v.vote), k)
    IN  [m EXCEPT ![v.prev] = [rating |-> next.rA, n_votes |-> A.n_votes],
                  ![v.curr] = [rating |-> next.rB, n_votes |-> B.n_votes]]

FoldOneCountsPrevOnly(m, v) ==
    LET A == m[v.prev]
        B == m[v.curr]
        kMax == Max(kFactor(A.n_votes), kFactor(B.n_votes))
        k == IF v.vote = "same" THEN kMax \div 2 ELSE kMax
        next == updateElo(A.rating, B.rating, voteToScore(v.vote), k)
    IN  [m EXCEPT ![v.prev] = [rating |-> next.rA, n_votes |-> A.n_votes + 1],
                  ![v.curr] = [rating |-> next.rB, n_votes |-> B.n_votes]]

FoldOneUsesCountsAfter(m, v) ==
    LET A == m[v.prev]
        B == m[v.curr]
        kMax == Max(kFactor(A.n_votes + 1), kFactor(B.n_votes + 1))
        k == IF v.vote = "same" THEN kMax \div 2 ELSE kMax
        next == updateElo(A.rating, B.rating, voteToScore(v.vote), k)
    IN  [m EXCEPT ![v.prev] = [rating |-> next.rA, n_votes |-> A.n_votes + 1],
                  ![v.curr] = [rating |-> next.rB, n_votes |-> B.n_votes + 1]]

\* one iteration of the fold loop over the working set m
FoldOne(m, v) ==
    LET A == m[v.prev]
        B == m[v.curr]
        kMax == Max(kFactor(A.n_votes), kFactor(B.n_votes))
        k == IF v.vote = "same" THEN kMax \div 2 ELSE kMax
        next == updateElo(A.rating, B.rating, voteToScore(v.vote), k)
    IN  [m EXCEPT ![v.prev] = [rating |-> next.rA, n_votes |-> A.n_votes + 1],
                  ![v.curr] = [rating |-> next.rB, n_votes |-> B.n_votes + 1]]

RECURSIVE FoldVotesBackwards(_, _, _)
FoldVotesBackwards(m, sel, j) ==
    IF j > Len(sel) THEN m ELSE FoldOne(FoldVotesBackwards(m, sel, j + 1), sel[j])

RECURSIVE FoldVotes(_, _, _)
\* the fold loop from the j-th selected vote on; the working set after
\* one iteration is the value n that the next iteration starts from
FoldVotes(m, sel, j) ==
    IF j > Len(sel)
        THEN m
        ELSE CHOOSE out \in {FoldVotes(n, sel, j + 1) : n \in {FoldOne(m, sel[j])}} : TRUE

\* the select, which gives the rows of ids; an empty batch returns
\* {ok, processed: 0} at once
BatchSelectIds(r, ids) ==
    /\ run[r].pc = "idle"
    /\ IF ids = <<>>
           THEN /\ result' = [result EXCEPT ![r] = [ok |-> TRUE, processed |-> 0]]
                /\ UNCHANGED run
           ELSE /\ run' = [run EXCEPT ![r] =
                    [pc |-> "load",
                     sel |-> [j \in DOMAIN ids |-> VoteSnapshot(ids[j])],
                     map |-> <<>>,
                     before |-> ratings]]
                /\ UNCHANGED result
    /\ UNCHANGED <<votes, ratings, folded, lost, retry, failures, baseVotes, voteReply>>
    /\ UNCHANGED userSide
    /\ UNCHANGED sessionSide

BatchSelect(r) == BatchSelectIds(r, SelectPendingVotes)

\* load the stored rows of the referenced problems into ratingMap
BatchLoad(r) ==
    /\ run[r].pc = "load"
    /\ LET m == [p \in SelProblems(r) \cap DOMAIN ratings |-> Entry(ratings[p])]
       IN run' = [run EXCEPT ![r].map = m,
                             ![r].pc = IF SelProblems(r) \subseteq DOMAIN m
                                         THEN "upsert" ELSE "seed"]
    /\ UNCHANGED <<votes, ratings, result, folded, lost, retry, failures, baseVotes, voteReply>>
    /\ UNCHANGED userSide
    /\ UNCHANGED sessionSide

\* upsert the default row of every missing problem (a row stored meanwhile
\* is overwritten: ignoreDuplicates is off), and put it into ratingMap
BatchSeed(r) ==
    /\ run[r].pc = "seed"
    /\ LET missing == SelProblems(r) \ DOMAIN run[r].map IN
         /\ ratings' = [p \in DOMAIN ratings \cup missing |->
                          IF p \in missing THEN ProblemRow(DefaultRating, 0)
                          ELSE ratings[p]]
         /\ run' = [run EXCEPT
                ![r].map = [p \in SelProblems(r) |->
                              IF p \in missing
                                THEN [rating |-> DefaultRating, n_votes |-> 0]
                                ELSE run[r].map[p]],
                ![r].pc = "upsert"]
         /\ lost' = (lost \/ missing \cap DOMAIN ratings # {})
    /\ UNCHANGED <<votes, result, folded, retry, failures, baseVotes, voteReply>>
    /\ UNCHANGED userSide
    /\ UNCHANGED sessionSide

\* the rows of the upsert: rating and n_votes of every problem of ratingMap
UpsertRatings(m) ==
    [p \in DOMAIN ratings \cup DOMAIN m |->
        IF p \in DOMAIN m
          THEN [rating |-> m[p].rating,
                n_votes |-> m[p].n_votes,
                n_attempts |-> IF p \in DOMAIN ratings THEN ratings[p].n_attempts ELSE 0]
          ELSE ratings[p]]

MarkProcessed(ids) ==
    [i \in DOMAIN votes |->
        IF i \in ids THEN [votes[i] EXCEPT !.processed = TRUE] ELSE votes[i]]

BatchUpsertMarksFirst(r) ==
    /\ run[r].pc = "upsert"
    /\ \E m \in {FoldVotes(run[r].map, run[r].sel, 1)} :
          ratings' = UpsertRatings(m)
    /\ votes' = MarkProcessed(SelIds(r))
    /\ folded' = [i \in DOMAIN folded |->
                    IF i \in SelIds(r) THEN folded[i] + 1 ELSE folded[i]]
    /\ lost' = lost
    /\ run' = [run EXCEPT ![r].pc = "mark"]
    /\ UNCHANGED <<result, retry, failures, baseVotes, voteReply>>
    /\ UNCHANGED userSide
    /\ UNCHANGED sessionSide

\* fold the selected votes in memory, then upsert the working set
BatchUpsert(r) ==
    /\ run[r].pc = "upsert"
    /\ \E m \in {FoldVotes(run[r].map, run[r].sel, 1)} :
          ratings' = UpsertRatings(m)
    /\ folded' = [i \in DOMAIN folded |->
                    IF i \in SelIds(r) THEN folded[i] + 1 ELSE folded[i]]
    /\ lost' = (lost \/ \E p \in DOMAIN run[r].map :
                            p \notin DOMAIN ratings \/ Entry(ratings[p]) # run[r].map[p])
    /\ run' = [run EXCEPT ![r].pc = "mark"]
    /\ UNCHANGED <<votes, result, retry, failures, baseVotes, voteReply>>
    /\ UNCHANGED userSide
    /\ UNCHANGED sessionSide

\* set processed_at on the selected ids and answer {ok, processed}
BatchMark(r) ==
    /\ run[r].pc = "mark"
    /\ votes' = MarkProcessed(SelIds(r))
    /\ result' = [result EXCEPT ![r] = [ok |-> TRUE, processed |-> Len(run[r].sel)]]
    /\ run' = [run EXCEPT ![r] = IdleRun]
    /\ retry' = NoRetry
    /\ UNCHANGED <<ratings, folded, lost, failures, baseVotes, voteReply>>
    /\ UNCHANGED userSide
    /\ UNCHANGED sessionSide

\* the storage call the invocation is about to make fails: the statement
\* writes nothing and the handler answers 500
BatchFail(r) ==
    /\ run[r].pc \in {"idle", "load", "seed", "upsert", "mark"}
    /\ failures < MaxFailures
    /\ failures' = failures + 1
    /\ result' = [result EXCEPT ![r] = ErrorResult]
    /\ run' = [run EXCEPT ![r] = IdleRun]
    /\ retry' = IF run[r].pc = "idle" \/ retry # NoRetry THEN retry
                ELSE [sel |-> run[r].sel, before |-> run[r].before]
    /\ UNCHANGED <<votes, ratings, folded, lost, baseVotes, voteReply>>
    /\ UNCHANGED userSide
    /\ UNCHANGED sessionSide

(***************************************************************************)
(* POST /api/admin/sync-problem-ratings: upsert {problem_id, rating} of   *)
(* every corpus problem (one chunk: the corpus is below chunkSize).        *)
(***************************************************************************)
Sync ==
    /\ ratings' = [p \in Problems |->
                     IF p \in DOMAIN ratings
                       THEN [ratings[p] EXCEPT !.rating = seedToRating(SeedOf(p))]
                       ELSE ProblemRow(seedToRating(SeedOf(p)), 0)]
    /\ retry' = NoRetry
    /\ UNCHANGED <<votes, run, result, folded, lost, failures, baseVotes, voteReply>>
    /\ UNCHANGED userSide
    /\ UNCHANGED sessionSide

(***************************************************************************)
(* GET /api/problems: the level of a problem is that of its live rating,   *)
(* or its seed difficulty if it has no row.                                *)
(***************************************************************************)
ProblemLevel(p) ==
    IF p \in DOMAIN ratings THEN ratingToLevel(ratings[p].rating) ELSE SeedOf(p)

(***************************************************************************)
(* Specifications of the problem side.                                     *)
(***************************************************************************)
AllIdle == \A r \in Runners : run[r].pc = "idle"

VoteRequest ==
    \E s \in Sessions, prev \in Compared, curr \in Compared, v \in VoteValues :
        AllIdle /\ SubmitVote(s, prev, curr, v) /\ UNCHANGED sessionSide

FewVoteRequest == VoteRequest /\ Len(votes') <= FewVotes

\* one operation at a time, no storage failure
Next ==
    \/ VoteRequest
    \/ AllIdle /\ Sync
    \/ BatchSelect("r1")
    \/ BatchLoad("r1")
    \/ BatchSeed("r1")
    \/ BatchUpsert("r1")
    \/ BatchMark("r1")

Spec == Init /\ [][Next]_vars

\* the same operations from every initial table
InitAged == Start({FreshRatings} \cup AgedRatings, {<<>>})

NextFew ==
    \/ FewVoteRequest
    \/ AllIdle /\ Sync
    \/ BatchSelect("r1")
    \/ BatchLoad("r1")
    \/ BatchSeed("r1")
    \/ BatchUpsert("r1")
    \/ BatchMark("r1")

SpecAged == InitAged /\ [][NextFew]_vars

\* the same, the vote requests being of any body
NextPost ==
    \/ \E s \in Sessions, b \in Bodies :
          AllIdle /\ VotePost(s, b) /\ Len(votes') <= FewVotes /\ UNCHANGED sessionSide
    \/ AllIdle /\ Sync
    \/ BatchSelect("r1")
    \/ BatchLoad("r1")
    \/ BatchSeed("r1")
    \/ BatchUpsert("r1")
    \/ BatchMark("r1")

SpecPost == InitAged /\ [][NextPost]_vars

\* Tables for the rating math: every pairing of ratings at and between the
\* clamp bounds, with vote counts on both sides of every kFactor step, and
\* the empty table.
EloRatings == {400, 1000, 1200, 4000}

EloCounts == {0, 9, 10, 49, 50, 199, 200}

EloTables ==
    {FreshRatings} \cup
    { [p \in Compared |-> IF p = "p1" THEN ProblemRow(t.r1, t.n1)
                                      ELSE ProblemRow(t.r2, t.n2)] :
         t \in [r1 : EloRatings, r2 : EloRatings, n1 : EloCounts, n2 : {0, 200}] }

InitElo == Start(EloTables, {<<>>})

\* the votes of one session, folded one run at a time
NextElo ==
    \/ \E prev \in Compared, curr \in Compared, v \in VoteValues :
          /\ AllIdle
          /\ SubmitVote("s1", prev, curr, v)
          /\ Len(votes') <= FewVotes
          /\ UNCHANGED sessionSide
    \/ BatchSelect("r1")
    \/ BatchLoad("r1")
    \/ BatchSeed("r1")
    \/ BatchUpsert("r1")
    \/ BatchMark("r1")

SpecElo == InitElo /\ [][NextElo]_vars

\* runs that fold up to PairLimit votes, from every initial table
NextPair ==
    \/ VoteRequest
    \/ BatchSelectIds("r1", SelectPending(PairLimit))
    \/ BatchLoad("r1")
    \/ BatchSeed("r1")
    \/ BatchUpsert("r1")
    \/ BatchMark("r1")

SpecPair == InitAged /\ [][NextPair]_vars

\* one step of the one runner
RunStep ==
    \/ BatchSelect("r1")
    \/ BatchLoad("r1")
    \/ BatchSeed("r1")
    \/ BatchUpsert("r1")
    \/ BatchMark("r1")

\* the votes of one session arrive at any time, also during a run
NextDrain ==
    \/ \E prev \in Compared, curr \in Compared, v \in VoteValues :
          SubmitVote("s1", prev, curr, v) /\ UNCHANGED sessionSide
    \/ RunStep

\* the runner is invoked again and again (the cron schedule) and each of
\* its storage calls returns
SpecDrain == Init /\ [][NextDrain]_vars /\ WF_vars(RunStep)

\* one runner, and the corpus sync at any moment, also between the storage
\* calls of a run
NextRace ==
    \/ FewVoteRequest
    \/ Sync
    \/ BatchSelect("r1")
    \/ BatchLoad("r1")
    \/ BatchSeed("r1")
    \/ BatchUpsert("r1")
    \/ BatchMark("r1")

SpecRace == InitAged /\ [][NextRace]_vars

\* one operation at a time; any storage call of a run may fail
NextFail ==
    \/ NextFew
    \/ BatchFail("r1")

SpecFail == Init /\ [][NextFail]_vars

\* two recompute-ratings invocations interleaved at their storage calls,
\* with no mutual exclusion; votes arrive between the runs
NextConc ==
    \/ FewVoteRequest
    \/ \E r \in Runners :
          \/ BatchSelect(r)
          \/ BatchLoad(r)
          \/ BatchSeed(r)
          \/ BatchUpsert(r)
          \/ BatchMark(r)

SpecConc == Init /\ [][NextConc]_vars

(***************************************************************************)
(* POST /api/attempt                                                       *)
(***************************************************************************)
AttemptKinds == {"right", "wrong", "giveup"}

\* the stored outcome: giveup as requested, else checkAnswer's verdict
OutcomeOf(kind) ==
    CASE kind = "giveup" -> "giveup" [] kind = "right" -> "correct" [] kind = "wrong" -> "wrong"

ClampUserNoFloor(r) == Min(MaxRating, r)

\* Math.max(100, Math.min(4000, r))
ClampUser(r) == Max(MinUserRating, Min(MaxRating, r))

AttemptStartUpdatesOnGiveup(h, s, u, p, kind) ==
    /\ att[h].pc = "idle"
    /\ p \in Problems
    /\ Len(attempts) < MaxAttempts
    /\ attempts' = Append(attempts,
          [session |-> s, user |-> u, problem |-> p, outcome |-> OutcomeOf(kind)])
    /\ att' = [att EXCEPT ![h] =
          IF u # NoUser
            THEN [pc |-> "readUser", user |-> u, problem |-> p,
                  outcome |-> OutcomeOf(kind)]
            ELSE [pc |-> "idle", resp |-> OutcomeOf(kind)]]
    /\ UNCHANGED <<userRatings, history, baseAttempts>>
    /\ UNCHANGED problemSide
    /\ UNCHANGED sessionSide

\* insert the attempt row; go on to the rating update only for a decisive
\* attempt of a signed-in user, else answer {correct, outcome}
AttemptStart(h, s, u, p, kind) ==
    /\ att[h].pc = "idle"
    /\ p \in Problems
    /\ Len(attempts) < MaxAttempts
    /\ attempts' = Append(attempts,
          [session |-> s, user |-> u, problem |-> p, outcome |-> OutcomeOf(kind)])
    /\ att' = [att EXCEPT ![h] =
          IF u # NoUser /\ OutcomeOf(kind) # "giveup"
            THEN [pc |-> "readUser", user |-> u, problem |-> p,
                  outcome |-> OutcomeOf(kind)]
            ELSE [pc |-> "idle", resp |-> OutcomeOf(kind)]]
    /\ UNCHANGED <<userRatings, history, baseAttempts>>
    /\ UNCHANGED problemSide
    /\ UNCHANGED sessionSide

\* the insert of the attempt row fails: the route logs the error and goes
\* on as after a stored row
AttemptInsertFails(h, s, u, p, kind) ==
    /\ att[h].pc = "idle"
    /\ p \in Problems
    /\ failures < MaxFailures
    /\ failures' = failures + 1
    /\ att' = [att EXCEPT ![h] =
          IF u # NoUser /\ OutcomeOf(kind) # "giveup"
            THEN [pc |-> "readUser", user |-> u, problem |-> p,
                  outcome |-> OutcomeOf(kind)]
            ELSE [pc |-> "idle", resp |-> OutcomeOf(kind)]]
    /\ UNCHANGED <<userRatings, history, attempts, baseAttempts>>
    /\ UNCHANGED <<votes, ratings, run, result, folded, lost, retry, baseVotes, voteReply>>
    /\ UNCHANGED sessionSide

\* select rating, n_attempts of the user's row; 1000 and 0 without a row
AttemptReadUser(h) ==
    /\ att[h].pc = "readUser"
    /\ LET u == att[h].user IN
         att' = [att EXCEPT ![h] =
            [pc |-> "readProblem", user |-> u, problem |-> att[h].problem,
             outcome |-> att[h].outcome,
             userRating |-> IF u \in DOMAIN userRatings
                              THEN userRatings[u].rating ELSE DefaultRating,
             userAttempts |-> IF u \in DOMAIN userRatings
                                THEN userRatings[u].n_attempts ELSE 0]]
    /\ UNCHANGED <<userRatings, history, attempts, baseAttempts>>
    /\ UNCHANGED problemSide
    /\ UNCHANGED sessionSide

\* select the rating of the problem's row; the seed's rating without a row
\* (ProblemSchema gives every problem a seed, so the fallback seed 5 of the
\* route is never taken)
AttemptReadProblem(h) ==
    /\ att[h].pc = "readProblem"
    /\ LET p == att[h].problem IN
         att' = [att EXCEPT ![h] =
            [pc |-> "write", user |-> att[h].user, problem |-> p,
             outcome |-> att[h].outcome,
             userRating |-> att[h].userRating,
             userAttempts |-> att[h].userAttempts,
             problemRating |-> IF p \in DOMAIN ratings
                                 THEN ratings[p].rating
                                 ELSE seedToRating(SeedOf(p))]]
    /\ UNCHANGED <<userRatings, history, attempts, baseAttempts>>
    /\ UNCHANGED problemSide
    /\ UNCHANGED sessionSide

AttemptDeltaCountsThisAttempt(a) ==
    EloDelta(a.userRating, a.problemRating,
             IF a.outcome = "correct" THEN 2 ELSE 0, kFactor(a.userAttempts + 1))

\* delta = Math.round(K * (actualScore - expected))
AttemptDelta(a) ==
    EloDelta(a.userRating, a.problemRating,
             IF a.outcome = "correct" THEN 2 ELSE 0, kFactor(a.userAttempts))

\* upsert the user's row: the clamped rating and n_attempts + 1
AttemptWrite(h) ==
    /\ att[h].pc = "write"
    /\ LET a == att[h]
           newRating == ClampUser(a.userRating + AttemptDelta(a))
       IN /\ userRatings' = [u \in DOMAIN userRatings \cup {a.user} |->
                               IF u = a.user
                                 THEN UserRow(newRating, a.userAttempts + 1)
                                 ELSE userRatings[u]]
          /\ att' = [att EXCEPT ![h] =
                [pc |-> "history", user |-> a.user, problem |-> a.problem,
                 outcome |-> a.outcome, delta |-> AttemptDelta(a),
                 newRating |-> newRating]]
    /\ UNCHANGED <<history, attempts, baseAttempts>>
    /\ UNCHANGED problemSide
    /\ UNCHANGED sessionSide

AttemptHistoryUnrecorded(h) ==
    /\ att[h].pc = "history"
    /\ att' = [att EXCEPT ![h] = [pc |-> "idle", resp |-> att[h].outcome]]
    /\ UNCHANGED <<userRatings, history, attempts, baseAttempts>>
    /\ UNCHANGED problemSide
    /\ UNCHANGED sessionSide

\* insert the history row and answer {correct, outcome}
AttemptHistory(h) ==
    /\ att[h].pc = "history"
    /\ history' = Append(history,
          [user |-> att[h].user, rating |-> att[h].newRating, delta |-> att[h].delta,
           problem |-> att[h].problem, outcome |-> att[h].outcome])
    /\ att' = [att EXCEPT ![h] = [pc |-> "idle", resp |-> att[h].outcome]]
    /\ UNCHANGED <<userRatings, attempts, baseAttempts>>
    /\ UNCHANGED problemSide
    /\ UNCHANGED sessionSide

AfterFailureAnswer500(a) == [pc |-> "idle", resp |-> "error"]

\* what a storage call of the rating update leaves of the request when it
\* fails: the client returns {data: null, error}, which the route does not
\* look at, so a failed select reads as "no row" and a failed write as done
AfterFailure(a) ==
    CASE a.pc = "readUser" ->
           [pc |-> "readProblem", user |-> a.user, problem |-> a.problem,
            outcome |-> a.outcome, userRating |-> DefaultRating, userAttempts |-> 0]
      [] a.pc = "readProblem" ->
           [pc |-> "write", user |-> a.user, problem |-> a.problem,
            outcome |-> a.outcome, userRating |-> a.userRating,
            userAttempts |-> a.userAttempts,
            problemRating |-> seedToRating(SeedOf(a.problem))]
      [] a.pc = "write" ->
           [pc |-> "history", user |-> a.user, problem |-> a.problem,
            outcome |-> a.outcome, delta |-> AttemptDelta(a),
            newRating |-> ClampUser(a.userRating + AttemptDelta(a))]
      [] a.pc = "history" -> [pc |-> "idle", resp |-> a.outcome]

\* the storage call the rating update is about to make fails
AttemptFail(h) ==
    /\ att[h].pc \in {"readUser", "readProblem", "write", "history"}
    /\ failures < MaxFailures
    /\ failures' = failures + 1
    /\ att' = [att EXCEPT ![h] = AfterFailure(att[h])]
    /\ UNCHANGED <<userRatings, history, attempts, baseAttempts>>
    /\ UNCHANGED <<votes, ratings, run, result, folded, lost, retry, baseVotes, voteReply>>
    /\ UNCHANGED sessionSide

(***************************************************************************)
(* claimSession(userId, sessionHash): the session's anonymous attempts    *)
(* and votes get the user id; the user's rating row is created if absent  *)
(* (ignoreDuplicates).  The profiles table is outside the model.           *)
(***************************************************************************)
ClaimSessionOverwritesRow(u, s) ==
    /\ attempts' = [i \in DOMAIN attempts |->
                      IF attempts[i].session = s /\ attempts[i].user = NoUser
                        THEN [attempts[i] EXCEPT !.user = u] ELSE attempts[i]]
    /\ votes' = [i \in DOMAIN votes |->
                   IF votes[i].session = s /\ votes[i].user = NoUser
                     THEN [votes[i] EXCEPT !.user = u] ELSE votes[i]]
    /\ userRatings' = [v \in DOMAIN userRatings \cup {u} |->
                         IF v = u THEN UserRow(DefaultRating, 0) ELSE userRatings[v]]
    /\ UNCHANGED <<history, att, baseAttempts>>
    /\ UNCHANGED <<ratings, run, result, folded, lost, retry, failures, baseVotes, voteReply>>
    /\ UNCHANGED sessionSide

ClaimSession(u, s) ==
    /\ attempts' = [i \in DOMAIN attempts |->
                      IF attempts[i].session = s /\ attempts[i].user = NoUser
                        THEN [attempts[i] EXCEPT !.user = u] ELSE attempts[i]]
    /\ votes' = [i \in DOMAIN votes |->
                   IF votes[i].session = s /\ votes[i].user = NoUser
                     THEN [votes[i] EXCEPT !.user = u] ELSE votes[i]]
    /\ userRatings' = [v \in DOMAIN userRatings \cup {u} |->
                         IF v \in DOMAIN userRatings THEN userRatings[v]
                         ELSE UserRow(DefaultRating, 0)]
    /\ UNCHANGED <<history, att, baseAttempts>>
    /\ UNCHANGED <<ratings, run, result, folded, lost, retry, failures, baseVotes, voteReply>>
    /\ UNCHANGED sessionSide

(***************************************************************************)
(* Specifications of the user side.                                        *)
(***************************************************************************)
\* problem_ratings as the attempt route may find it: no row (the seeds
\* decide), or rows at the bounds of the problem range
UserSpecRatings ==
    { FreshRatings,
      [p \in Problems |-> IF p = "p1" THEN ProblemRow(400, 60) ELSE ProblemRow(4000, 250)] }

\* user_ratings: no row, or a row a long attempt history leaves next to a
\* bound of the user range
UserSpecUsers ==
    { <<>>,
      [u \in {"u1"} |-> UserRow(102, 47)],
      [u \in {"u1"} |-> UserRow(3998, 200)] }

InitUser == Start(UserSpecRatings, UserSpecUsers)

AllAttemptsIdle == \A h \in Handlers : att[h].pc = "idle"

\* one request at a time
NextUser ==
    \/ \E s \in Sessions, u \in Users \cup {NoUser}, p \in Compared, kind \in AttemptKinds :
          AttemptStart("h1", s, u, p, kind)
    \/ AttemptReadUser("h1")
    \/ AttemptReadProblem("h1")
    \/ AttemptWrite("h1")
    \/ AttemptHistory("h1")
    \/ \E u \in Users, s \in Sessions : AllAttemptsIdle /\ ClaimSession(u, s)

SpecUser == InitUser /\ [][NextUser]_vars

\* Tables for the rating math of the attempt route: the first problem
\* without a row or with one at or between the bounds, the second always
\* without (its seed decides); the user without a row or with a rating at
\* or between the bounds and a count on either side of a kFactor step.
UserEloRatings ==
    {FreshRatings} \cup
    { [p \in {"p1"} |-> ProblemRow(r, 0)] : r \in {400, 1200, 4000} }

UserEloUsers ==
    {<<>>} \cup
    { [u \in {"u1"} |-> UserRow(r, n)] : r \in {100, 1000, 4000}, n \in EloCounts }

InitUserElo == Start(UserEloRatings, UserEloUsers)

\* the attempts of one signed-in user, one request at a time
NextUserElo ==
    \/ \E p \in Compared, kind \in AttemptKinds : AttemptStart("h1", "s1", "u1", p, kind)
    \/ AttemptReadUser("h1")
    \/ AttemptReadProblem("h1")
    \/ AttemptWrite("h1")
    \/ AttemptHistory("h1")

SpecUserElo == InitUserElo /\ [][NextUserElo]_vars

\* every writer of the two rating tables, one request at a time: the vote
\* and attempt routes for one session, its user and one pair of problems,
\* the batch run, the corpus sync and the claim of the session
InitWriters == Start({FreshRatings}, UserSpecUsers)

NextWriters ==
    \/ \E v \in VoteValues :
          /\ AllIdle /\ AllAttemptsIdle
          /\ SubmitVote("s1", "p1", "p2", v)
          /\ Len(votes') <= FewVotes
          /\ UNCHANGED sessionSide
    \/ AllIdle /\ AllAttemptsIdle /\ Sync
    \/ AllAttemptsIdle /\ BatchSelect("r1")
    \/ BatchLoad("r1")
    \/ BatchSeed("r1")
    \/ BatchUpsert("r1")
    \/ BatchMark("r1")
    \/ \E kind \in AttemptKinds :
          AllIdle /\ AttemptStart("h1", "s1", "u1", "p1", kind)
    \/ AttemptReadUser("h1")
    \/ AttemptReadProblem("h1")
    \/ AttemptWrite("h1")
    \/ AttemptHistory("h1")
    \/ \E u \in Users : AllIdle /\ AllAttemptsIdle /\ ClaimSession(u, "s1")

SpecWriters == InitWriters /\ [][NextWriters]_vars

\* one request at a time; any storage call of the rating update may fail
NextUserFail ==
    \/ NextUser
    \/ AttemptFail("h1")

SpecUserFail == InitUser /\ [][NextUserFail]_vars

\* one request at a time; the insert of the attempt row may fail
NextUserLoss ==
    \/ NextUser
    \/ \E s \in Sessions, u \in Users \cup {NoUser}, p \in Compared, kind \in AttemptKinds :
          AttemptInsertFails("h1", s, u, p, kind)

SpecUserLoss == InitUser /\ [][NextUserLoss]_vars

\* two attempt requests interleaved at their storage calls
NextUserConc ==
    \E h \in Handlers :
        \/ \E s \in Sessions, u \in Users \cup {NoUser}, p \in Compared, kind \in AttemptKinds :
              AttemptStart(h, s, u, p, kind)
        \/ AttemptReadUser(h)
        \/ AttemptReadProblem(h)
        \/ AttemptWrite(h)
        \/ AttemptHistory(h)

SpecUserConc == Init /\ [][NextUserConc]_vars

(***************************************************************************)
(* The Learn page (LearnPage): one browser, its session cookie "s1", not  *)
(* signed in.  The page holds the list GET /api/problems returned: the     *)
(* corpus without the answers, of which the scheduler reads the field     *)
(* difficulty.  ProblemSchema makes that field optional (seed_difficulty   *)
(* is the preferred one), so a problem may come without it.                *)
(***************************************************************************)
MinLevel == 1
MaxLevel == 20
\* the widest radius of the search for an unseen problem
WidenRadius == 10
\* the radius within which a seen problem may be shown again
RepeatRadius == 3
\* completed problems from which on a finalized problem is compared
VoteFrom == 2

PageSession == "s1"

\* difficulty: undefined
NoDifficulty == 0

\* the difficulty fields of the corpus, as the deployments differ in them
Corpora ==
    { [p \in Problems |-> CASE p = "p1" -> 4 [] p = "p2" -> 11 [] p = "p3" -> 18],
      [p \in Problems |-> CASE p = "p1" -> 10 [] p = "p2" -> 10 [] p = "p3" -> 12],
      [p \in Problems |-> CASE p = "p1" -> 1 [] p = "p2" -> NoDifficulty [] p = "p3" -> 20] }

\* solution_video_url is set
HasVideo(p) == p = "p2"

\* the levels the learner picks on the onboarding slider (1..20), and the
\* level an earlier visit left in localStorage
StartLevels == {1, 10, 20}

Abs(n) == IF n < 0 THEN -n ELSE n

\* Math.abs(p.difficulty - targetDifficulty) <= delta, which is false of an
\* undefined difficulty (NaN)
Within(l, p, target, delta) ==
    /\ l.problems[p] # NoDifficulty
    /\ Abs(l.problems[p] - target) <= delta

SeenOrUnseen(l, target, delta) ==
    {p \in DOMAIN l.problems : Within(l, p, target, delta)}

Unseen(l, target, delta) ==
    {p \in DOMAIN l.problems : Within(l, p, target, delta) /\ p \notin l.seenIds}

RECURSIVE Widen(_, _, _, _)
\* for (delta = 1; delta <= 10 && candidates.length === 0; delta++)
Widen(l, target, candidates, delta) ==
    IF delta <= WidenRadius /\ candidates = {}
      THEN Widen(l, target, Unseen(l, target, delta), delta + 1)
      ELSE candidates

CandidatesWithoutRepeats(l, target) ==
    Widen(l, target, Unseen(l, target, 0), 1)

CandidatesWidestFirst(l, target) ==
    LET unseen == Unseen(l, target, WidenRadius)
    IN  IF unseen = {}
          THEN {p \in DOMAIN l.problems : Within(l, p, target, RepeatRadius)}
          ELSE unseen

\* the candidates of selectNextProblem: unseen at the target, else unseen
\* within the first radius that has any, else anything within radius 3
Candidates(l, target) ==
    LET unseen == Widen(l, target, Unseen(l, target, 0), 1)
    IN  IF unseen = {}
          THEN {p \in DOMAIN l.problems : Within(l, p, target, RepeatRadius)}
          ELSE unseen

\* the page after selectNextProblem(target) has picked sel
Shown(l, sel) ==
    [l EXCEPT !.previousProblem = l.currentProblem,
              !.currentProblem = sel,
              !.seenIds = l.seenIds \cup {sel},
              !.lastOutcome = NoOutcome,
              !.isResolved = FALSE,
              !.gameState = "solving"]

\* selectNextProblem(target) on the page l: the pages it may leave (the
\* pick is Math.random's)
selectNextProblem(l, target) ==
    IF DOMAIN l.problems = {} THEN {l}
    ELSE IF Candidates(l, target) = {} THEN {[l EXCEPT !.gameState = "complete"]}
    ELSE {Shown(l, sel) : sel \in Candidates(l, target)}

\* selectNextProblem(target) as the last call of a handler that has brought
\* page and history to l and t
SelectStep(l, t, target) ==
    \E n \in selectNextProblem(l, target) :
        /\ learn' = n
        /\ trail' = [t EXCEPT
              !.call = [target |-> target, seen |-> l.seenIds,
                        chosen |-> IF n.gameState = "solving"
                                     THEN n.currentProblem ELSE NoProblem,
                        tick |-> ~t.call.tick],
              !.retried = FALSE,
              !.watched = FALSE]

Live == ~learn.error

\* the init effect: session and problems are fetched; a saved starting
\* level skips the onboarding, and ?start= names the first problem
PageLoad(corpus, saved, start) ==
    /\ learn.gameState = "loading"
    /\ Live
    /\ LET l == [learn EXCEPT !.problems = corpus] IN
         learn' =
           IF saved = 0 THEN [l EXCEPT !.gameState = "onboarding"]
           ELSE IF start \in DOMAIN corpus
             THEN [l EXCEPT !.difficulty = saved, !.currentProblem = start,
                            !.seenIds = {start}, !.gameState = "solving"]
             ELSE [l EXCEPT !.difficulty = saved, !.gameState = "solving"]
    /\ UNCHANGED <<trail, problemSide, userSide>>

\* a fetch of the init effect fails
PageLoadFails ==
    /\ learn.gameState = "loading"
    /\ Live
    /\ learn' = [learn EXCEPT !.error = TRUE]
    /\ UNCHANGED <<trail, problemSide, userSide>>

\* the onboarding slider
SlideLevel(val) ==
    /\ learn.gameState = "onboarding"
    /\ Live
    /\ learn' = [learn EXCEPT !.difficulty = val]
    /\ UNCHANGED <<trail, problemSide, userSide>>

\* "Start at Level": the level goes to localStorage, which only a later
\* visit reads
StartAtLevel ==
    /\ learn.gameState = "onboarding"
    /\ Live
    /\ learn' = [learn EXCEPT !.gameState = "solving"]
    /\ UNCHANGED <<trail, problemSide, userSide>>

\* the effect that selects the first problem
SelectFirst ==
    /\ learn.gameState = "solving"
    /\ learn.currentProblem = NoProblem
    /\ DOMAIN learn.problems # {}
    /\ Live
    /\ SelectStep(learn, trail, learn.difficulty)
    /\ UNCHANGED <<problemSide, userSide>>

\* submitAttempt: POST /api/attempt (the route modelled above) answers
\* with its verdict, or the request fails.  The page reads nothing else of
\* what the route does.
SubmitAttempt(kind, ok) ==
    /\ learn.gameState = "solving"
    /\ learn.currentProblem # NoProblem
    /\ Live
    /\ learn' =
         IF ~ok THEN [learn EXCEPT !.error = TRUE]
         ELSE [learn EXCEPT !.lastOutcome = OutcomeOf(kind),
                            !.isResolved = (kind # "wrong"),
                            !.gameState = "feedback"]
    /\ UNCHANGED <<trail, problemSide, userSide>>

TryAgainStepsDown ==
    /\ learn.gameState = "feedback"
    /\ learn.lastOutcome = "wrong" /\ ~learn.isResolved
    /\ Live
    /\ learn' = [learn EXCEPT !.gameState = "solving",
                              !.difficulty = Max(MinLevel, learn.difficulty - 1)]
    /\ trail' = [trail EXCEPT !.retried = TRUE]
    /\ UNCHANGED <<problemSide, userSide>>

\* "Try Again" after a wrong answer
TryAgain ==
    /\ learn.gameState = "feedback"
    /\ learn.lastOutcome = "wrong" /\ ~learn.isResolved
    /\ Live
    /\ learn' = [learn EXCEPT !.gameState = "solving"]
    /\ trail' = [trail EXCEPT !.retried = TRUE]
    /\ UNCHANGED <<problemSide, userSide>>

RatchetNoCeiling(d, finalOutcome) ==
    IF finalOutcome = "correct" THEN d + 1 ELSE Max(MinLevel, d - 1)

RatchetNoFloor(d, finalOutcome) ==
    IF finalOutcome = "correct" THEN Min(MaxLevel, d + 1) ELSE d - 1

\* nextDifficulty of finalizeAndContinue
Ratchet(d, finalOutcome) ==
    IF finalOutcome = "correct" THEN Min(MaxLevel, d + 1) ELSE Max(MinLevel, d - 1)


\* history: the run of finalized outcomes that moved the target one way
Streak(t, d, finalOutcome) ==
    LET way == IF finalOutcome = "correct" THEN "up" ELSE "down" IN
    IF t.streak = way THEN [t EXCEPT !.run = t.run + 1]
    ELSE [t EXCEPT !.streak = way, !.run = 1, !.from = d]

finalizeAndVote(finalOutcome, cap) ==
    LET nextDifficulty == Ratchet(learn.difficulty, finalOutcome)
        nextCompletedCount == learn.completedCount + 1
        l == [learn EXCEPT !.difficulty = nextDifficulty,
                           !.completedCount = nextCompletedCount]
        t == Streak(trail, learn.difficulty, finalOutcome)
    IN  /\ learn.completedCount < cap
        /\ learn' = [l EXCEPT !.gameState = "voting"]
        /\ trail' = t

\* finalizeAndContinue(finalOutcome), for at most cap completed problems
finalizeAndContinue(finalOutcome, cap) ==
    LET nextDifficulty == Ratchet(learn.difficulty, finalOutcome)
        nextCompletedCount == learn.completedCount + 1
        l == [learn EXCEPT !.difficulty = nextDifficulty,
                           !.completedCount = nextCompletedCount]
        t == Streak(trail, learn.difficulty, finalOutcome)
    IN  /\ learn.completedCount < cap
        /\ IF nextCompletedCount >= VoteFrom /\ learn.previousProblem # NoProblem
             THEN /\ learn' = [l EXCEPT !.gameState = "voting"]
                  /\ trail' = t
             ELSE SelectStep(l, t, nextDifficulty)

\* "Move On" after a wrong answer
MoveOn(cap) ==
    /\ learn.gameState = "feedback"
    /\ learn.lastOutcome = "wrong" /\ ~learn.isResolved
    /\ Live
    /\ finalizeAndContinue("wrong", cap)
    /\ UNCHANGED <<problemSide, userSide>>

\* "Next Problem" after a correct answer or a give-up
NextProblem(cap) ==
    /\ learn.gameState = "feedback"
    /\ \/ learn.lastOutcome = "correct" /\ learn.isResolved
       \/ learn.lastOutcome = "giveup"
    /\ Live
    /\ finalizeAndContinue(IF learn.lastOutcome = "correct" THEN "correct" ELSE "giveup", cap)
    /\ UNCHANGED <<problemSide, userSide>>

ViewSolutionAfterAnyOutcome ==
    /\ learn.gameState = "feedback"
    /\ learn.currentProblem # NoProblem /\ HasVideo(learn.currentProblem)
    /\ Live
    /\ learn' = [learn EXCEPT !.gameState = "watching"]
    /\ trail' = [trail EXCEPT !.watched = TRUE]
    /\ UNCHANGED <<problemSide, userSide>>

\* "View Solution Video" / "View Solution"
ViewSolution ==
    /\ learn.gameState = "feedback"
    /\ \/ learn.lastOutcome = "wrong" /\ ~learn.isResolved
       \/ learn.lastOutcome = "giveup"
    /\ learn.currentProblem # NoProblem /\ HasVideo(learn.currentProblem)
    /\ Live
    /\ learn' = [learn EXCEPT !.gameState = "watching"]
    /\ trail' = [trail EXCEPT !.watched = TRUE]
    /\ UNCHANGED <<problemSide, userSide>>

\* the three buttons of the watching state
ContinueFromVideo(cap) ==
    /\ learn.gameState = "watching"
    /\ learn.currentProblem # NoProblem /\ HasVideo(learn.currentProblem)
    /\ Live
    /\ finalizeAndContinue(
          IF learn.lastOutcome = "correct" THEN "correct"
          ELSE IF learn.lastOutcome = "wrong" THEN "wrong" ELSE "giveup", cap)
    /\ UNCHANGED <<problemSide, userSide>>

\* the voting buttons are rendered
CanVote ==
    /\ learn.gameState = "voting"
    /\ learn.previousProblem # NoProblem /\ learn.currentProblem # NoProblem
    /\ Live

CastVoteStaysOnFailure(vote) ==
    /\ CanVote
    /\ \/ /\ SubmitVote(PageSession, learn.previousProblem, learn.currentProblem, vote)
          /\ Len(votes') <= FewVotes
          /\ SelectStep(learn, [trail EXCEPT !.vote = "stored"], learn.difficulty)
       \/ /\ UNCHANGED <<problemSide, userSide>>
          /\ learn' = learn
          /\ trail' = [trail EXCEPT !.vote = "failed"]

\* submitVote(vote): POST /api/vote stores the vote, or the request does
\* not get that far (network, rate limit, a rejected pair, storage); the
\* page goes on either way
CastVote(vote) ==
    /\ CanVote
    /\ \/ /\ SubmitVote(PageSession, learn.previousProblem, learn.currentProblem, vote)
          /\ Len(votes') <= FewVotes
          /\ SelectStep(learn, [trail EXCEPT !.vote = "stored"], learn.difficulty)
       \/ /\ UNCHANGED <<problemSide, userSide>>
          /\ SelectStep(learn, [trail EXCEPT !.vote = "failed"], learn.difficulty)

\* "Skip" in the voting state
SkipVote ==
    /\ CanVote
    /\ SelectStep(learn, [trail EXCEPT !.vote = "skipped"], learn.difficulty)
    /\ UNCHANGED <<problemSide, userSide>>

StartOverKeepsSeen ==
    /\ learn.gameState = "complete"
    /\ Live
    /\ learn' = [learn EXCEPT !.completedCount = 0,
                              !.previousProblem = NoProblem,
                              !.currentProblem = NoProblem,
                              !.difficulty = 1,
                              !.lastOutcome = NoOutcome,
                              !.isResolved = FALSE,
                              !.gameState = "solving"]
    /\ trail' = [trail EXCEPT !.streak = "none", !.run = 0, !.from = 1,
                              !.retried = FALSE, !.watched = FALSE]
    /\ UNCHANGED <<problemSide, userSide>>

\* "Start over" in the complete state
StartOver ==
    /\ learn.gameState = "complete"
    /\ Live
    /\ learn' = [learn EXCEPT !.seenIds = {}, !.completedCount = 0,
                              !.previousProblem = NoProblem,
                              !.currentProblem = NoProblem,
                              !.difficulty = 1,
                              !.lastOutcome = NoOutcome,
                              !.isResolved = FALSE,
                              !.gameState = "solving"]
    /\ trail' = [trail EXCEPT !.streak = "none", !.run = 0, !.from = 1,
                              !.retried = FALSE, !.watched = FALSE]
    /\ UNCHANGED <<problemSide, userSide>>

(***************************************************************************)
(* Specifications of the Learn page.                                       *)
(***************************************************************************)
\* one learner, every button
NextLearn ==
    \/ \E corpus \in Corpora, saved \in {0} \cup StartLevels,
          start \in Problems \cup {NoProblem} : PageLoad(corpus, saved, start)
    \/ PageLoadFails
    \/ \E val \in StartLevels : SlideLevel(val)
    \/ StartAtLevel
    \/ SelectFirst
    \/ \E kind \in AttemptKinds, ok \in BOOLEAN : SubmitAttempt(kind, ok)
    \/ TryAgain
    \/ MoveOn(MaxCompleted)
    \/ NextProblem(MaxCompleted)
    \/ ViewSolution
    \/ ContinueFromVideo(MaxCompleted)
    \/ \E vote \in VoteValues : CastVote(vote)
    \/ SkipVote
    \/ StartOver

SpecLearn == Init /\ [][NextLearn]_vars

\* one learner who skips every comparison, over many problems
NextStreak ==
    \/ \E corpus \in Corpora, saved \in {0} \cup StartLevels,
          start \in Problems \cup {NoProblem} : PageLoad(corpus, saved, start)
    \/ PageLoadFails
    \/ \E val \in StartLevels : SlideLevel(val)
    \/ StartAtLevel
    \/ SelectFirst
    \/ \E kind \in AttemptKinds, ok \in BOOLEAN : SubmitAttempt(kind, ok)
    \/ TryAgain
    \/ MoveOn(MaxStreak)
    \/ NextProblem(MaxStreak)
    \/ ViewSolution
    \/ ContinueFromVideo(MaxStreak)
    \/ SkipVote
    \/ StartOver

SpecStreak == Init /\ [][NextStreak]_vars

\* the levels next to the difficulties of the corpus with two problems at 10
NearLevels == {9, 10, 11}

\* one learner who starts next to the problems of the corpus
NextNear ==
    \/ \E corpus \in Corpora, saved \in {0} \cup NearLevels,
          start \in Problems \cup {NoProblem} : PageLoad(corpus, saved, start)
    \/ PageLoadFails
    \/ \E val \in NearLevels : SlideLevel(val)
    \/ StartAtLevel
    \/ SelectFirst
    \/ \E kind \in AttemptKinds, ok \in BOOLEAN : SubmitAttempt(kind, ok)
    \/ TryAgain
    \/ MoveOn(MaxCompleted)
    \/ NextProblem(MaxCompleted)
    \/ ViewSolution
    \/ ContinueFromVideo(MaxCompleted)
    \/ \E vote \in VoteValues : CastVote(vote)
    \/ SkipVote
    \/ StartOver

SpecNear == Init /\ [][NextNear]_vars

(***************************************************************************)
(* Properties.                                                             *)
(***************************************************************************)
NoPending == \A i \in DOMAIN votes : votes[i].processed

\* the stored vote count of a problem; no row reads as 0
NVotes(p) == IF p \in DOMAIN ratings THEN ratings[p].n_votes ELSE 0

\* the stored attempt count of a user; no row reads as 0
NAttempts(u) == IF u \in DOMAIN userRatings THEN userRatings[u].n_attempts ELSE 0

Refs(p) == {i \in DOMAIN votes : votes[i].prev = p \/ votes[i].curr = p}

ProcessedRefs(p) == {i \in Refs(p) : votes[i].processed}

\* rating and vote count of every problem as a reader sees them: no row
\* reads as the default
RatingView(t) ==
    [p \in Problems |->
        IF p \in DOMAIN t THEN Entry(t[p])
        ELSE [rating |-> DefaultRating, n_votes |-> 0]]

\* what one successful run over the selection sel leaves of the table t
OneRun(t, sel) ==
    LET m == FoldVotes([p \in ProblemsOf(sel) |-> RatingView(t)[p]], sel, 1)
    IN  [p \in Problems |-> IF p \in DOMAIN m THEN m[p] ELSE RatingView(t)[p]]

\* C1: with runs one at a time and no storage failure, every vote is folded
\* into the stored ratings at most once: no vote is ever folded twice, a
\* processed vote was folded exactly once, and no run holds a processed vote
\* in its selection.
C1_FoldedAtMostOnce ==
    /\ \A i \in DOMAIN votes :
          folded[i] <= 1 /\ (votes[i].processed => folded[i] = 1)
    /\ \A r \in Runners : \A i \in SelIds(r) : ~votes[i].processed

\* a later run has persisted its ratings while an earlier vote is processed
C1_Witness ==
    /\ run["r1"].pc = "mark"
    /\ \E i \in DOMAIN votes : votes[i].processed /\ folded[i] = 1

\* C2: a run whose storage call fails, at whichever step, leaves every vote
\* it selected unprocessed.
C2_FailedRunMarksNothing ==
    [][\A r \in Runners :
          BatchFail(r) => \A i \in SelIds(r) : ~votes'[i].processed]_vars

\* the mark-processed call failed after the ratings were persisted
C2_Witness ==
    /\ result["r1"] = ErrorResult
    /\ run["r1"].pc = "idle"
    /\ \E i \in DOMAIN votes : folded[i] = 1 /\ ~votes[i].processed

\* C3: a failed run followed by a successful run over the same selection
\* leaves rating and vote count of every problem as one successful run from
\* the table before the failed run would.
C3_RetryEqualsOneRun ==
    [][\A r \in Runners :
          (BatchMark(r) /\ retry # NoRetry /\ retry.sel = run[r].sel)
              => RatingView(ratings') = OneRun(retry.before, retry.sel)]_vars

\* C4: a run that finds no pending vote answers {ok, processed: 0} and
\* changes no rating row and no vote row.
C4_EmptyRunIsNoOp ==
    [][\A r \in Runners :
          (BatchSelect(r) /\ NoPending)
              => /\ result'[r] = [ok |-> TRUE, processed |-> 0]
                 /\ run'[r].pc = "idle"
                 /\ votes' = votes
                 /\ ratings' = ratings]_vars

\* the last run answered processed: 0 right after the votes were consumed
C4_Witness ==
    /\ votes # <<>>
    /\ NoPending
    /\ run["r1"].pc = "idle"
    /\ result["r1"] = [ok |-> TRUE, processed |-> 0]

\* C5: two interleaved runs can count a vote twice.  As long as no write
\* rested on a stale read, a vote that two runs both persisted leaves, once
\* all votes are marked, the vote counts of both its problems above the
\* number of votes that name them.
C5_TwiceFoldedCountsTwice ==
    (~lost /\ NoPending) =>
        \A i \in DOMAIN votes :
            folded[i] >= 2 =>
                /\ NVotes(votes[i].prev) >
                      baseVotes[votes[i].prev] + Cardinality(Refs(votes[i].prev))
                /\ NVotes(votes[i].curr) >
                      baseVotes[votes[i].curr] + Cardinality(Refs(votes[i].curr))

\* both runs are done, and a problem's count exceeds the votes naming it
C5_Witness ==
    /\ ~lost
    /\ AllIdle
    /\ NoPending
    /\ \E i \in DOMAIN votes :
          /\ folded[i] = 2
          /\ NVotes(votes[i].prev) > Cardinality(Refs(votes[i].prev))

\* C6: between sequential failure-free runs the vote count of every problem
\* is its initial count plus the number of processed votes naming it, and
\* no step lowers a vote count.
C6_VoteCounts ==
    /\ [](AllIdle => \A p \in Problems :
              NVotes(p) = baseVotes[p] + Cardinality(ProcessedRefs(p)))
    /\ [][\A p \in Problems : NVotes(p)' >= NVotes(p)]_vars

\* two votes naming a problem are processed, in two runs
C6_Witness ==
    /\ AllIdle
    /\ \E p \in Problems : NVotes(p) = 2 /\ Cardinality(ProcessedRefs(p)) = 2

\* C7: no update of a user's rating row is lost: once the attempt requests
\* are answered, the user's attempt count has grown by one per decisive
\* attempt (each of which left its history row).
C7_NoLostUserUpdate ==
    AllAttemptsIdle =>
        \A u \in Users :
            NAttempts(u) = baseAttempts[u]
                + Cardinality({i \in DOMAIN history : history[i].user = u})

\* C8: the corpus sync leaves every row that has votes as it is.
C8_SyncKeepsVotedRows ==
    [][Sync => \A p \in DOMAIN ratings :
                  ratings[p].n_votes > 0 => ratings'[p] = ratings[p]]_vars

\* C9: every stored problem rating is in [400, 4000].
C9_ProblemRatingInRange ==
    \A p \in DOMAIN ratings : ratings[p].rating \in 400..4000

\* a run persisted a rating held at 400: the vote moved the opponent up by
\* the delta that would have taken the problem below 400
C9_Witness ==
    /\ run["r1"].pc = "mark"
    /\ \E p \in DOMAIN run["r1"].map, q \in DOMAIN run["r1"].map :
          /\ p # q
          /\ run["r1"].map[p].rating = 400
          /\ ratings[p].rating = 400
          /\ ratings[q].rating > run["r1"].map[q].rating

\* C10: every stored user rating is in [100, 4000].
C10_UserRatingInRange ==
    \A u \in DOMAIN userRatings : userRatings[u].rating \in 100..4000

\* an attempt of the user stored at 102 was answered with the rating held
\* at 100, its delta reaching below
C10_Witness ==
    /\ AllAttemptsIdle
    /\ baseAttempts["u1"] = 47
    /\ Len(history) >= 1
    /\ history[1].rating = 100
    /\ 102 + history[1].delta < 100
    /\ userRatings["u1"].rating = 100

\* the attempt row that the last insert stored
LastAttempt(t) == t[Len(t)]

\* a step that changes the rating or the attempt count of a user, creates a
\* row that counts an attempt, or changes the rating history
UserRatingTouched ==
    \/ history' # history
    \/ \E u \in DOMAIN userRatings' :
          IF u \in DOMAIN userRatings
            THEN userRatings'[u] # userRatings[u]
            ELSE userRatings'[u].n_attempts > 0

\* C11: recording an attempt with outcome giveup, or of no signed-in user,
\* answers at once and leaves user ratings, attempt counts and the rating
\* history as they are; only a request for a decisive attempt of a
\* signed-in user ever touches them.
C11_UpdaterOnlyForDecisive ==
    [][
       /\ (/\ Len(attempts') > Len(attempts)
           /\ \/ LastAttempt(attempts').outcome = "giveup"
              \/ LastAttempt(attempts').user = NoUser)
          => (/\ userRatings' = userRatings
              /\ history' = history
              /\ \A h \in Handlers : att'[h].pc = "idle")
       /\ UserRatingTouched
          => (\E h \in Handlers :
                /\ att[h].pc \in {"write", "history"}
                /\ att[h].user # NoUser
                /\ att[h].outcome \in {"correct", "wrong"})
      ]_vars

\* a give-up of the signed-in user is stored and answered after an
\* anonymous attempt, and the user tables are as they were
C11_Witness ==
    /\ AllAttemptsIdle
    /\ Len(attempts) = 2
    /\ attempts[1].user = NoUser /\ attempts[1].outcome = "correct"
    /\ attempts[2].user = "u1" /\ attempts[2].outcome = "giveup"
    /\ att["h1"].resp = "giveup"
    /\ history = <<>>
    /\ NAttempts("u1") = baseAttempts["u1"]

\* C12: a failing storage call of the rating update does not stop the
\* request: the route goes on to its next step, the attempt row stays
\* stored, and the answer is the attempt's outcome.
C12_UpdateFailureIsSwallowed ==
    /\ [](\A h \in Handlers :
             att[h].pc # "idle" =>
                \E i \in DOMAIN attempts :
                    /\ attempts[i].user = att[h].user
                    /\ attempts[i].problem = att[h].problem
                    /\ attempts[i].outcome = att[h].outcome)
    /\ [][\A h \in Handlers :
             /\ AttemptFail(h) => (att'[h].pc # att[h].pc /\ attempts' = attempts)
             /\ (att[h].pc # "idle" /\ att'[h].pc = "idle")
                   => (att'[h].resp = att[h].outcome)]_vars

\* the insert of the history row failed after the rating was written, and
\* the request was answered "correct"
C12_Witness ==
    /\ failures = 1
    /\ AllAttemptsIdle
    /\ att["h1"].resp = "correct"
    /\ history = <<>>
    /\ NAttempts("u1") = baseAttempts["u1"] + 1
    /\ attempts # <<>>
    /\ LastAttempt(attempts).user = "u1"
    /\ LastAttempt(attempts).outcome = "correct"

\* C13: the rating history only grows, by one entry at the end for each
\* answered decisive attempt of a signed-in user, and between sequential
\* failure-free requests a user has as many entries as attempts counted
\* since the start.
C13_HistoryAppendOnly ==
    /\ [](AllAttemptsIdle =>
            \A u \in Users :
               Cardinality({i \in DOMAIN history : history[i].user = u})
                  = NAttempts(u) - baseAttempts[u])
    /\ [][
           /\ Len(history') >= Len(history)
           /\ SubSeq(history', 1, Len(history)) = history
           /\ \A h \in Handlers :
                 (att[h].pc = "history" /\ att'[h].pc = "idle")
                    => (/\ Len(history') = Len(history) + 1
                        /\ history'[Len(history')].user = att[h].user
                        /\ history'[Len(history')].outcome = att[h].outcome
                        /\ history'[Len(history')].problem = att[h].problem)
           /\ Len(history') > Len(history)
                 => (\E h \in Handlers : att[h].pc = "history" /\ att'[h].pc = "idle")
          ]_vars

\* two decisive attempts of the user left two entries, the attempt count
\* two above its start
C13_Witness ==
    /\ AllAttemptsIdle
    /\ Len(history) = 2
    /\ history[1].user = "u1" /\ history[2].user = "u1"
    /\ NAttempts("u1") = baseAttempts["u1"] + 2

\* a scheduler call has run in this step
Scheduled == trail'.call.tick # trail.call.tick

\* a problem is finalized in this step
Finalized == learn'.completedCount = learn.completedCount + 1

\* the problems the page holds at a difficulty within radius of target
Around(target, radius) ==
    {p \in DOMAIN learn.problems :
        /\ learn.problems[p] \in MinLevel..MaxLevel
        /\ learn.problems[p] - target \in (0 - radius)..radius}

C16_RatchetKeepsTargetInRange ==
    /\ [](learn.difficulty \in 1..20)
    /\ [][Finalized =>
             learn'.difficulty =
                IF learn.lastOutcome = "correct"
                  THEN (IF learn.difficulty + 1 > 20 THEN 20 ELSE learn.difficulty + 1)
                  ELSE (IF learn.difficulty - 1 < 1 THEN 1 ELSE learn.difficulty - 1)]_vars

\* a correct answer at target 20 was finalized and the target is 20
C16_Witness ==
    /\ trail.streak = "up"
    /\ trail.from = 20
    /\ learn.difficulty = 20
    /\ learn.completedCount >= 1

\* C17: a run of n finalized correct outcomes from target d leaves the
\* target at min(20, d + n), a run of n finalized wrong or giveup outcomes
\* at max(1, d - n): after 19 of a kind the target is 20 (1) and stays.
C17_RatchetConverges ==
    /\ trail.streak = "up" =>
          /\ learn.difficulty = Min(20, trail.from + trail.run)
          /\ trail.run >= 19 => learn.difficulty = 20
    /\ trail.streak = "down" =>
          /\ learn.difficulty = Max(1, trail.from - trail.run)
          /\ trail.run >= 19 => learn.difficulty = 1

\* twenty correct outcomes in a row from target 1: the nineteenth reached
\* 20, the twentieth stayed there
C17_Witness ==
    /\ trail.streak = "up"
    /\ trail.from = 1
    /\ trail.run = 20
    /\ learn.difficulty = 20

\* what a retry must leave alone
PracticeState ==
    <<learn.difficulty, learn.completedCount, learn.currentProblem,
      learn.previousProblem, learn.seenIds>>

\* C18: "Try Again" leads back to solving the same problem and changes
\* neither target, completed count, current or previous problem nor the seen
\* set, and neither does a submission; the completed count moves by one,
\* in the step that finalizes the problem in feedback or watching, which
\* is the only step of the practice loop that moves the target; after it
\* the problem is left (voting, the next problem, or complete).
C18_RetryChangesNothing ==
    [][
       /\ TryAgain => (PracticeState' = PracticeState /\ learn'.gameState = "solving")
       /\ (learn.gameState = "solving" /\ learn.currentProblem # NoProblem)
             => PracticeState' = PracticeState
       /\ learn'.completedCount # learn.completedCount
             => \/ Finalized /\ learn.gameState \in {"feedback", "watching"}
                \/ learn.gameState = "complete" /\ learn'.completedCount = 0
       /\ (learn'.difficulty # learn.difficulty /\ learn.currentProblem # NoProblem)
             => \/ Finalized
                \/ learn.gameState = "complete"
       /\ Finalized =>
             \/ learn'.gameState \in {"voting", "complete"}
             \/ learn'.gameState = "solving" /\ learn'.lastOutcome = NoOutcome
      ]_vars

\* a problem retried after a wrong answer was finalized as the second one
C18_Witness ==
    /\ learn.gameState = "voting"
    /\ trail.retried
    /\ learn.completedCount = 2

\* C19: finalizing a problem leads to voting exactly if the completed count
\* is then at least 2 and a previous problem exists; otherwise the scheduler
\* is called and the state is solving or complete.  The first finalized
\* problem never leads to voting.
C19_VotingFromSecondProblem ==
    [][Finalized =>
         /\ learn'.gameState = "voting"
               <=> (learn'.completedCount >= 2 /\ learn.previousProblem # NoProblem)
         /\ learn'.gameState # "voting"
               => (Scheduled /\ learn'.gameState \in {"solving", "complete"})
         /\ learn'.completedCount = 1 => learn'.gameState # "voting"]_vars

\* the first finalization went on to the next problem, the second to voting
C19_Witness ==
    /\ learn.gameState = "voting"
    /\ learn.completedCount = 2
    /\ learn.previousProblem # NoProblem
    /\ trail.call.tick

\* C20: in the voting state the vote buttons and Skip are there; every
\* step out of it, a vote stored, a vote failed or a skip, calls the
\* scheduler, which leads to solving or complete; only a stored vote
\* changes the stored votes, a skip leaves them as they are.
C20_VotingAlwaysAdvances ==
    /\ []((learn.gameState = "voting" /\ Live) => CanVote)
    /\ [][learn.gameState = "voting" =>
             /\ Scheduled
             /\ learn'.gameState \in {"solving", "complete"}
             /\ trail'.vote \in {"stored", "failed", "skipped"}
             /\ trail'.vote # "stored" => votes' = votes]_vars

\* the vote request failed, nothing is stored, and the next problem is shown
C20_Witness ==
    /\ trail.vote = "failed"
    /\ votes = <<>>
    /\ learn.gameState = "solving"
    /\ learn.completedCount = 2
    /\ learn.lastOutcome = NoOutcome

\* C21: the state becomes complete only in a step in which a scheduler call
\* found no candidate; the only step out of complete is "Start over", which
\* leads to solving with the seen set empty, the completed count 0, no
\* previous and no current problem and the target at 1, without calling the
\* scheduler; and the step that follows, the selection of the first problem,
\* is a scheduler call with that target and that seen set.
C21_CompleteUntilRestart ==
    [][
       /\ (learn'.gameState = "complete" /\ learn.gameState # "complete")
             => (Scheduled /\ trail'.call.chosen = NoProblem)
       /\ (learn.gameState = "complete" /\ learn' # learn)
             => /\ learn'.gameState = "solving"
                /\ learn'.seenIds = {}
                /\ learn'.completedCount = 0
                /\ learn'.previousProblem = NoProblem
                /\ learn'.currentProblem = NoProblem
                /\ learn'.difficulty = 1
                /\ ~Scheduled
       /\ (learn.gameState = "solving" /\ learn.currentProblem = NoProblem
              /\ learn' # learn)
             => /\ Scheduled
                /\ trail'.call.target = learn.difficulty
                /\ trail'.call.seen = learn.seenIds
      ]_vars

\* a session that had come to comparing problems was completed and started
\* over, and its new first problem was selected at target 1 from an empty
\* seen set
C21_Witness ==
    /\ trail.vote # "none"
    /\ trail.streak = "none"
    /\ learn.completedCount = 0
    /\ learn.gameState = "solving"
    /\ learn.currentProblem # NoProblem
    /\ learn.previousProblem = NoProblem
    /\ learn.seenIds = {learn.currentProblem}
    /\ trail.call.seen = {}
    /\ trail.call.target = 1

\* C22: the stored votes hold at most one row for every (session, previous
\* problem, current problem).  A step that changes the table other than by
\* marking rows processed changes exactly one row: a stored one, of which
\* it replaces the vote value alone, the number of rows staying as it is,
\* or a new one at the end, whose triple no stored row has.
C22_OneVotePerPair ==
    /\ [](\A s \in Sessions, prev \in Problems, curr \in Problems :
            Cardinality(VoteKeyRows(s, prev, curr)) <= 1)
    /\ [][(votes' # votes /\ run' = run) =>
            LET changed == {i \in DOMAIN votes' :
                               i \notin DOMAIN votes \/ votes'[i] # votes[i]}
            IN  \E i \in changed :
                  /\ changed = {i}
                  /\ IF i \in DOMAIN votes
                       THEN /\ Len(votes') = Len(votes)
                            /\ votes'[i].vote # votes[i].vote
                            /\ votes'[i] = [votes[i] EXCEPT !.vote = votes'[i].vote]
                       ELSE /\ Len(votes') = Len(votes) + 1
                            /\ i = Len(votes) + 1
                            /\ VoteKeyRows(votes'[i].session, votes'[i].prev,
                                           votes'[i].curr) = {}]_vars

\* the one vote of the table was folded as "easier" over two problems at
\* 1000 and then submitted again as "harder": still one row, its value
\* replaced
C22_Witness ==
    /\ Len(votes) = 1
    /\ votes[1].vote = "harder"
    /\ votes[1].processed
    /\ folded[1] = 1
    /\ votes[1].prev \in DOMAIN ratings
    /\ ratings[votes[1].prev].rating = 1032
    /\ ratings[votes[1].prev].n_votes = 1

\* C23: a vote request whose body is no JSON, is malformed (an empty id, a
\* key the schema does not have), carries a vote that is none of the three
\* values, names one problem twice or names a problem that is not in the
\* corpus is answered with status 400 or 404 and an error, and the stored
\* votes, the problem ratings and the user ratings are after it what they
\* were before.
C23_RejectedVoteChangesNothing ==
    /\ [](\A b \in Bodies :
            (\/ ~b.json
             \/ b.extra
             \/ b.prev = EmptyId \/ b.curr = EmptyId
             \/ b.vote \notin VoteValues
             \/ b.prev = b.curr
             \/ b.prev \notin Problems \/ b.curr \notin Problems)
            => /\ VoteVerdict(b).status \in {400, 404}
               /\ VoteVerdict(b).error # "none")
    /\ [][(voteReply' # voteReply /\ voteReply'.status # 200)
            => /\ voteReply'.status \in {400, 404}
               /\ votes' = votes
               /\ ratings' = ratings
               /\ userRatings' = userRatings]_vars

\* a vote is pending, ratings are stored, and the last request named a
\* problem that the corpus does not have
C23_Witness ==
    /\ voteReply = [status |-> 404, error |-> "Problem not found"]
    /\ Len(votes) = 1
    /\ ~votes[1].processed
    /\ DOMAIN ratings # {}

\* C24: for the ratings of every two compared problems of a run, every
\* score (0, 1/2, 1, doubled) and every K the callers pass, updateElo moves
\* each rating by at most K, and if neither sum leaves 400..4000 the two
\* new ratings add up to what the old ones did; and the run that has
\* folded one vote has moved each of the two stored ratings by at most 64,
\* by opposite amounts unless one of them is at a bound.
C24_BoundedZeroSum ==
    /\ \A r \in Runners : \A j \in DOMAIN run[r].sel :
          (run[r].pc \in {"upsert", "mark"}) =>
             \A s2 \in {0, 1, 2}, k \in {64, 32, 16, 8, 4} :
                LET rA == run[r].map[run[r].sel[j].prev].rating
                    rB == run[r].map[run[r].sel[j].curr].rating
                    new == updateElo(rA, rB, s2, k)
                    delta == EloDelta(rA, rB, s2, k)
                IN  /\ Abs(new.rA - rA) <= k
                    /\ Abs(new.rB - rB) <= k
                    /\ (rA + delta \in 400..4000 /\ rB - delta \in 400..4000)
                          => new.rA + new.rB = rA + rB
    /\ (run["r1"].pc = "mark" /\ Len(run["r1"].sel) = 1) =>
          LET v == run["r1"].sel[1]
              rA == run["r1"].map[v.prev].rating
              rB == run["r1"].map[v.curr].rating
              newA == ratings[v.prev].rating
              newB == ratings[v.curr].rating
          IN  /\ Abs(newA - rA) <= 64
              /\ Abs(newB - rB) <= 64
              /\ ({newA, newB} \cap {400, 4000} = {}) => newA + newB = rA + rB

\* a run has folded a vote for a problem at 4000 against one at 4000: the
\* winner stays at the bound, the loser has gone down, the sum with it
C24_Witness ==
    /\ run["r1"].pc = "mark"
    /\ Len(run["r1"].sel) = 1
    /\ run["r1"].sel[1].vote = "easier"
    /\ run["r1"].map[run["r1"].sel[1].prev].rating = 4000
    /\ ratings[run["r1"].sel[1].prev].rating = 4000
    /\ ratings[run["r1"].sel[1].curr].rating = 3968

\* C25: kFactor is 64 below 10, 32 from 10 below 50, 16 from 50 below 200
\* and 8 from 200 on, for the vote count of every stored problem; of two
\* counts the larger never has the larger factor; 9 gives 64, 10 and 49
\* give 32, 50 and 199 give 16, 200 gives 8.  A run shows the factor: an
\* "easier" vote between two problems of one rating, the current one with
\* 200 votes or more, raises the previous problem by half the factor of
\* its count.
C25_KFactorSteps ==
    /\ kFactor(9) = 64 /\ kFactor(10) = 32 /\ kFactor(49) = 32
    /\ kFactor(50) = 16 /\ kFactor(199) = 16 /\ kFactor(200) = 8
    /\ \A p \in DOMAIN ratings, q \in DOMAIN ratings :
          LET n == ratings[p].n_votes
              m == ratings[q].n_votes
          IN  /\ n < 10 => kFactor(n) = 64
              /\ (10 <= n /\ n < 50) => kFactor(n) = 32
              /\ (50 <= n /\ n < 200) => kFactor(n) = 16
              /\ n >= 200 => kFactor(n) = 8
              /\ n <= m => kFactor(n) >= kFactor(m)
    /\ (run["r1"].pc = "mark" /\ Len(run["r1"].sel) = 1) =>
          LET v == run["r1"].sel[1]
              A == run["r1"].map[v.prev]
              B == run["r1"].map[v.curr]
          IN  (/\ v.vote = "easier"
               /\ A.rating = B.rating
               /\ A.rating \in 464..3936
               /\ B.n_votes >= 200)
              => ratings[v.prev].rating - A.rating =
                    (IF A.n_votes < 10 THEN 32
                     ELSE IF A.n_votes < 50 THEN 16
                     ELSE IF A.n_votes < 200 THEN 8 ELSE 4)

\* a run has folded an "easier" vote for a problem with 199 votes against
\* one with 200, both at 1000: factor 16, the rating rises by 8
C25_Witness ==
    /\ run["r1"].pc = "mark"
    /\ Len(run["r1"].sel) = 1
    /\ run["r1"].sel[1].vote = "easier"
    /\ run["r1"].map[run["r1"].sel[1].prev] = [rating |-> 1000, n_votes |-> 199]
    /\ run["r1"].map[run["r1"].sel[1].curr] = [rating |-> 1000, n_votes |-> 200]
    /\ ratings[run["r1"].sel[1].prev].rating = 1008
    /\ ratings[run["r1"].sel[1].prev].n_votes = 200

\* C29: the run that has folded one vote has given the two problems the
\* ratings updateElo returns for their ratings before, the vote's score and
\* k, where k is the larger of the factors of their two vote counts before
\* the vote, halved for "same", and has raised both counts by one.  Two
\* problems at 1000 with no votes come out at 1032 (previous) and 968
\* (current) for "easier", and at 1000 and 1000, with one vote each, for
\* "same".
C29_FoldUsesLargerFactor ==
    (run["r1"].pc = "mark" /\ Len(run["r1"].sel) = 1) =>
       LET v == run["r1"].sel[1]
           A == run["r1"].map[v.prev]
           B == run["r1"].map[v.curr]
           kA == kFactor(A.n_votes)
           kB == kFactor(B.n_votes)
           kMax == IF kA >= kB THEN kA ELSE kB
           k == IF v.vote = "same" THEN kMax \div 2 ELSE kMax
           new == updateElo(A.rating, B.rating,
                            CASE v.vote = "easier" -> 2 [] v.vote = "same" -> 1
                              [] v.vote = "harder" -> 0, k)
       IN  /\ ratings[v.prev].rating = new.rA
           /\ ratings[v.curr].rating = new.rB
           /\ ratings[v.prev].n_votes = A.n_votes + 1
           /\ ratings[v.curr].n_votes = B.n_votes + 1
           /\ (A = [rating |-> 1000, n_votes |-> 0] /\ B = A) =>
                 /\ v.vote = "easier" =>
                       (ratings[v.prev].rating = 1032 /\ ratings[v.curr].rating = 968)
                 /\ v.vote = "same" =>
                       (ratings[v.prev].rating = 1000 /\ ratings[v.curr].rating = 1000)

\* a problem with 9 votes was compared with one of 200 votes: the factor
\* is the 64 of the count 9, not the 32 of the count 10 it has now
C29_Witness ==
    /\ run["r1"].pc = "mark"
    /\ Len(run["r1"].sel) = 1
    /\ run["r1"].sel[1].vote = "easier"
    /\ run["r1"].map[run["r1"].sel[1].prev] = [rating |-> 1000, n_votes |-> 9]
    /\ run["r1"].map[run["r1"].sel[1].curr] = [rating |-> 1000, n_votes |-> 200]
    /\ ratings[run["r1"].sel[1].prev] = ProblemRow(1032, 10)
    /\ ratings[run["r1"].sel[1].curr] = ProblemRow(968, 201)

\* C30: the score of a vote is the one of the previous problem: 1 for
\* "easier", 1/2 for "same", 0 for "harder" (doubled: 2, 1, 0).  The run
\* that has folded an "easier" vote has not lowered the rating of the
\* previous problem and not raised that of the current one; the run that
\* has folded a "harder" vote has not raised the previous and not lowered
\* the current one.
C30_ScoreIsOfPrevious ==
    /\ voteToScore("easier") = 2
    /\ voteToScore("same") = 1
    /\ voteToScore("harder") = 0
    /\ (run["r1"].pc = "mark" /\ Len(run["r1"].sel) = 1) =>
          LET v == run["r1"].sel[1]
              A == run["r1"].map[v.prev]
              B == run["r1"].map[v.curr]
          IN  /\ v.vote = "easier" =>
                    /\ ratings[v.prev].rating >= A.rating
                    /\ ratings[v.curr].rating <= B.rating
              /\ v.vote = "harder" =>
                    /\ ratings[v.prev].rating <= A.rating
                    /\ ratings[v.curr].rating >= B.rating

\* a run has folded a "harder" vote: the previous problem, rated above the
\* current one before, has gone down and the current one up
C30_Witness ==
    /\ run["r1"].pc = "mark"
    /\ Len(run["r1"].sel) = 1
    /\ run["r1"].sel[1].vote = "harder"
    /\ run["r1"].map[run["r1"].sel[1].prev].rating = 1200
    /\ run["r1"].map[run["r1"].sel[1].curr].rating = 1000
    /\ ratings[run["r1"].sel[1].prev].rating < 1200
    /\ ratings[run["r1"].sel[1].curr].rating > 1000

\* C27: the step of a decisive attempt that writes the user's row stores
\* the rating max(100, min(4000, userRating + delta)) and the attempt count
\* n + 1, where userRating and n are the stored ones (1000 and 0 without a
\* row), delta is the rounded k * (score - expected) for the score 1 of a
\* correct and 0 of a wrong answer, k is kFactor(n), and the problem's
\* rating is the stored one or, without a row, 1000 + (seed - 1) * 60.  A
\* user at 1000 with no attempts who solves a problem rated 1200 gains 49
\* and is at 1049; who fails it loses 15; who solves one seeded 20 (2140)
\* gains 64.
C27_UserRatingUpdate ==
    [][(att["h1"].pc = "write" /\ att'["h1"].pc = "history") =>
         LET u == att["h1"].user
             p == att["h1"].problem
             right == att["h1"].outcome = "correct"
             userRating == IF u \in DOMAIN userRatings
                             THEN userRatings[u].rating ELSE 1000
             n == IF u \in DOMAIN userRatings THEN userRatings[u].n_attempts ELSE 0
             problemRating == IF p \in DOMAIN ratings
                                THEN ratings[p].rating
                                ELSE 1000 + (SeedOf(p) - 1) * 60
             delta == EloDelta(userRating, problemRating,
                               IF right THEN 2 ELSE 0, kFactor(n))
             sum == userRating + delta
         IN  /\ att["h1"].outcome \in {"correct", "wrong"}
             /\ att'["h1"].delta = delta
             /\ userRatings'[u].rating =
                   (IF sum < 100 THEN 100 ELSE IF sum > 4000 THEN 4000 ELSE sum)
             /\ userRatings'[u].n_attempts = n + 1
             /\ (userRating = 1000 /\ n = 0 /\ problemRating = 1200 /\ right)
                   => (delta = 49 /\ userRatings'[u].rating = 1049)
             /\ (userRating = 1000 /\ n = 0 /\ problemRating = 1200 /\ ~right)
                   => (delta = -15 /\ userRatings'[u].rating = 985)
             /\ (userRating = 1000 /\ n = 0 /\ problemRating = 2140 /\ right)
                   => (delta = 64 /\ userRatings'[u].rating = 1064)]_vars

\* the first attempt of a user without a row, on a problem rated 1200, was
\* correct: delta 49, the row holds 1049 and one attempt
C27_Witness ==
    /\ att["h1"].pc = "history"
    /\ att["h1"].outcome = "correct"
    /\ att["h1"].delta = 49
    /\ baseAttempts["u1"] = 0
    /\ Len(attempts) = 1
    /\ ratings[att["h1"].problem].rating = 1200
    /\ userRatings["u1"] = UserRow(1049, 1)

\* C28: the run that has stored its ratings has stored, for every problem,
\* what folding the selected votes one after the other, in the ascending
\* order of their ids, leaves of the table the run selected from, a
\* problem without a row counting as 1000 with 0 votes: for two votes, the
\* second is folded into the ratings and counts the first has left.
C28_RunIsLeftFold ==
    (run["r1"].pc = "mark") =>
       LET sel == run["r1"].sel
           seeded == [p \in ProblemsOf(sel) |->
                        IF p \in DOMAIN run["r1"].before
                          THEN Entry(run["r1"].before[p])
                          ELSE [rating |-> 1000, n_votes |-> 0]]
       IN  /\ \A j \in DOMAIN sel, l \in DOMAIN sel : j < l => sel[j].id < sel[l].id
           /\ RatingView(ratings) = OneRun(run["r1"].before, sel)
           /\ Len(sel) = 1 =>
                 \A p \in ProblemsOf(sel) :
                    Entry(ratings[p]) = FoldOne(seeded, sel[1])[p]
           /\ Len(sel) = 2 =>
                 \A p \in ProblemsOf(sel) :
                    Entry(ratings[p]) = FoldOne(FoldOne(seeded, sel[1]), sel[2])[p]

\* from the empty table a run has folded an "easier" and then a "harder"
\* vote for the same pair: 1032 / 968 after the first, 994 / 1006 after
\* the second, two votes each
C28_Witness ==
    /\ run["r1"].pc = "mark"
    /\ DOMAIN run["r1"].before = {}
    /\ Len(run["r1"].sel) = 2
    /\ run["r1"].sel[1].vote = "easier"
    /\ run["r1"].sel[2].vote = "harder"
    /\ run["r1"].sel[1].prev = run["r1"].sel[2].prev
    /\ ratings[run["r1"].sel[1].prev] = ProblemRow(994, 2)
    /\ ratings[run["r1"].sel[1].curr] = ProblemRow(1006, 2)

\* C26: with one runner that is invoked again and again and whose storage
\* calls succeed, every stored vote that is pending is processed at some
\* later time, also while other votes are pending or arrive; and every
\* run selects pending votes only, as many as the batch size allows, none
\* of them with a larger id than a pending vote it leaves behind.
C26_EveryVoteIsProcessed ==
    /\ \A i \in 1..MaxVotes :
          (i \in DOMAIN votes /\ ~votes[i].processed)
             ~> (i \in DOMAIN votes /\ votes[i].processed)
    /\ [][(run["r1"].pc = "idle" /\ run'["r1"].pc = "load") =>
            LET ids == {run'["r1"].sel[j].id : j \in DOMAIN run'["r1"].sel}
                pending == {i \in DOMAIN votes : ~votes[i].processed}
            IN  /\ ids \subseteq pending
                /\ Cardinality(ids) = Min(BatchLimit, Cardinality(pending))
                /\ \A i \in pending \ ids : \A j \in ids : j < i]_vars

\* as many votes as the table holds, more than one batch, have all been
\* processed, each folded once, the last run having taken a full batch
C26_Witness ==
    /\ Len(votes) = MaxVotes
    /\ MaxVotes > BatchLimit
    /\ NoPending
    /\ \A i \in DOMAIN folded : folded[i] = 1
    /\ AllIdle
    /\ result["r1"] = [ok |-> TRUE, processed |-> BatchLimit]

C32_WatchingFinalizesOnce ==
    /\ [](learn.gameState = "watching" =>
            /\ learn.lastOutcome \in {"wrong", "giveup"}
            /\ HasVideo(learn.currentProblem))
    /\ [][
          /\ (learn'.gameState = "watching" /\ learn.gameState # "watching") =>
                /\ learn.gameState = "feedback"
                /\ learn.lastOutcome \in {"wrong", "giveup"}
                /\ HasVideo(learn.currentProblem)
                /\ learn'.completedCount = learn.completedCount
                /\ learn'.difficulty = learn.difficulty
          /\ (learn.gameState = "watching" /\ learn' # learn) =>
                /\ learn'.completedCount = learn.completedCount + 1
                /\ learn'.difficulty = Max(1, learn.difficulty - 1)
                /\ learn'.gameState \in {"voting", "solving", "complete"}
                /\ learn'.gameState = "solving" => learn'.lastOutcome = NoOutcome
       ]_vars

\* the video of a problem given up was watched and left: the problem is
\* finalized as the second one, the target a step down, and the comparison
\* is next
C32_Witness ==
    /\ trail.watched
    /\ learn.gameState = "voting"
    /\ learn.lastOutcome = "giveup"
    /\ learn.completedCount = 2
    /\ trail.streak = "down"
    /\ learn.difficulty = Max(1, trail.from - trail.run)

\* C33: no write of the corpus sync to a problem's row is lost to a run of
\* the batch processor: the upsert of a run leaves in every row it writes
\* the outcome of folding the selected votes into the row as it is stored
\* at that moment, a sync write that landed after the run's load included.
C33_NoLostUpdateInRace ==
    [][(run["r1"].pc = "upsert" /\ run'["r1"].pc = "mark") =>
          LET stored == [p \in DOMAIN run["r1"].map |-> Entry(ratings[p])]
              both == FoldVotes(stored, run["r1"].sel, 1)
          IN  \A p \in DOMAIN run["r1"].map : Entry(ratings'[p]) = both[p]]_vars

\* C34: a step of an attempt request leaves every row of problem_ratings
\* as it is; a step of a batch run leaves every row of user_ratings (and
\* the rating history) as it is; and the claim of a session, the only
\* other step that changes user_ratings, leaves every existing row as it
\* is and adds rows of rating 1000 with no attempts only.
C34_WritersOfRatingRows ==
    [][
       /\ att' # att => ratings' = ratings
       /\ attempts' # attempts => ratings' = ratings
       /\ (run' # run \/ result' # result) =>
             (userRatings' = userRatings /\ history' = history)
       /\ ratings' # ratings => (userRatings' = userRatings /\ history' = history)
       /\ (userRatings' # userRatings /\ att' = att) =>
             /\ \A u \in DOMAIN userRatings :
                   u \in DOMAIN userRatings' /\ userRatings'[u] = userRatings[u]
             /\ \A u \in DOMAIN userRatings' \ DOMAIN userRatings :
                   userRatings'[u] = UserRow(1000, 0)
      ]_vars

\* the session of a user whose row has 47 attempts was claimed after its
\* vote was processed and after an attempt of the user moved the rating:
\* the row is the one the attempt left
C34_Witness ==
    /\ votes # <<>> /\ votes[1].user = "u1" /\ votes[1].processed
    /\ baseAttempts["u1"] = 47
    /\ userRatings["u1"].n_attempts = 48
    /\ history # <<>> /\ userRatings["u1"].rating = history[Len(history)].rating
    /\ \E p \in DOMAIN ratings : ratings[p].n_votes = baseVotes[p] + 1

\* C35: the level GET /api/problems gives a problem is an integer in
\* 1..20: the level of its live rating, which is in 400..4000, or its seed
\* difficulty if it has no rating row.
C35_LevelInRange ==
    \A p \in Problems :
        /\ p \in DOMAIN ratings => ratings[p].rating \in 400..4000
        /\ ProblemLevel(p) \in 1..20

\* C36: in the voting state the previous and the current problem are two
\* different problems, also after the scheduler has shown a seen problem
\* again, so the pair that a vote submits passes the pair test of the
\* vote route.
C36_VotingPairIsDistinct ==
    learn.gameState = "voting" =>
        /\ learn.previousProblem # learn.currentProblem
        /\ \A v \in VoteValues :
              VoteVerdict([json |-> TRUE, prev |-> learn.previousProblem,
                           curr |-> learn.currentProblem,
                           vote |-> v, extra |-> FALSE]) = Accepted

\* C37: the delta of a rating-history entry is its rating minus the rating
\* the user had stored before that attempt, also where the new rating is
\* clamped at 100 or 4000.  The requests of the one user follow each other,
\* so the rating stored before the attempt of an entry is the rating of
\* the entry before it.
C37_DeltaIsActualChange ==
    \A i \in 2..Len(history) :
        history[i].delta = history[i].rating - history[i - 1].rating

\* C38: a vote request for a pair whose stored vote is processed changes
\* the vote value of that row and nothing else: the row stays processed,
\* and ratings and fold counts are as before; a processed row stays
\* processed in every step; and a run folds only rows that are pending
\* when it selects them, so the row is folded once at most and its new
\* value is never folded.
C38_ProcessedVoteStaysProcessed ==
    /\ [](\A i \in DOMAIN folded : folded[i] <= 1)
    /\ [][
          /\ \A i \in DOMAIN votes :
                votes[i].processed =>
                   /\ votes'[i].processed
                   /\ votes'[i].vote # votes[i].vote =>
                         /\ ratings' = ratings
                         /\ folded' = folded
                         /\ [votes'[i] EXCEPT !.vote = votes[i].vote] = votes[i]
                         /\ Len(votes') = Len(votes)
          /\ (run["r1"].pc = "idle" /\ run'["r1"].pc = "load") =>
                \A j \in DOMAIN run'["r1"].sel :
                    /\ ~votes[run'["r1"].sel[j].id].processed
                    /\ run'["r1"].sel[j].vote = votes[run'["r1"].sel[j].id].vote
       ]_vars

\* the one stored vote is processed and folded once, and its value is no
\* longer the one the ratings hold: they are the fold of another value
C38_Witness ==
    /\ Len(votes) = 1
    /\ votes[1].processed
    /\ folded[1] = 1
    /\ AllIdle
    /\ \A p \in {votes[1].prev, votes[1].curr} : ratings[p].n_votes = 1
    /\ LET fresh == [p \in {votes[1].prev, votes[1].curr} |->
                        [rating |-> DefaultRating, n_votes |-> 0]]
           FoldOf(v) == FoldOne(fresh, [votes[1] EXCEPT !.vote = v])
       IN  /\ \E p \in DOMAIN fresh : Entry(ratings[p]) # FoldOf(votes[1].vote)[p]
           /\ \E v \in VoteValues \ {votes[1].vote} :
                 \A p \in DOMAIN fresh : Entry(ratings[p]) = FoldOf(v)[p]

\* C39: when a run marks its votes processed, every vote it marks has the
\* value stored that the run folded into the ratings, also if the session
\* has stored the vote again since the run selected it.
C39_FoldedValueIsStoredValue ==
    [][(run["r1"].pc = "mark" /\ run'["r1"].pc = "idle") =>
          \A j \in DOMAIN run["r1"].sel :
              /\ votes'[run["r1"].sel[j].id].processed
              /\ votes'[run["r1"].sel[j].id].vote = run["r1"].sel[j].vote]_vars

\* C40: the rating history has, for every user, problem and outcome, no
\* more entries than the attempts table has rows of that user, problem
\* and outcome, also when the insert of an attempt row has failed.
C40_HistoryHasAttemptRows ==
    \A u \in Users, p \in Problems, o \in {"correct", "wrong"} :
        Cardinality({i \in DOMAIN history :
                        /\ history[i].user = u
                        /\ history[i].problem = p
                        /\ history[i].outcome = o})
          <= Cardinality({j \in DOMAIN attempts :
                            /\ attempts[j].user = u
                            /\ attempts[j].problem = p
                            /\ attempts[j].outcome = o})

====
